---- MODULE Spec2Model ----
(***************************************************************************)
(* Whiro: the run-time Memory Monitor (Heap Table, Composite Inspector,    *)
(* pointer tracking) and the compile-time liveness repair of the           *)
(* instrumentation pass, as state machines.                                *)
(*                                                                         *)
(* Spec      the instrumented program running: allocator calls with the    *)
(*           injected Heap Table updates, and the top-level inspections    *)
(*           injected at inspection points.                                *)
(* SpecNull  the same program when an allocation can return NULL.          *)
(* SpecRun   the instrumented program calling, returning and halting:      *)
(*           call counters, output file, snapshots.                        *)
(* SpecLive  the pass building the trace of one variable, selecting its    *)
(*           definition, and the instrumented function then executing.     *)
(* SpecTable the pass writing the Type Table file and the program loading  *)
(*           it.                                                           *)
(* SpecHash  the program hashing its arrays of scalars.                    *)
(* SpecReify the pass making the Type Table of the debug types and the     *)
(*           Composite Inspector rendering variables with it.              *)
(* SpecArray the Heap Table of a program that allocates arrays of scalars, *)
(*           of structs and of pointers.                                   *)
(* SpecCount the pass computing the element counts of allocation calls.    *)
(* SpecSelect the pass selecting the definition of a variable at the       *)
(*           inspection points before the return and before exit.          *)
(***************************************************************************)
EXTENDS Integers, Sequences, FiniteSets, TLC

(***************************************************************************)
(* Addresses.  A pointer is an 8-byte little-endian word; the addresses    *)
(* the model uses fit in two bytes.                                        *)
(***************************************************************************)
NULL == 0

\* &etext, the end of the text segment
Etext == 512

\* an address inside the text segment
TextAddr == 256

\* an address of a stack object of the running function
StackAddr == 3840

\* the addresses the allocator hands out: 0x300 and 0x410
HeapAddrs == {768, 1040}

\* A pointer value with a non-zero byte above the second one: it equals no
\* address of the model and lies above every one of them.
Wild == -2

\* HeapEntry* NULL
NoEntry == -1

\* the keys a Heap Table entry can have
Keys == {NULL} \cup HeapAddrs

\* no HeapEntry struct was allocated for the key
NoStruct == [Data |-> [TypeIndex |-> -1, Size |-> -1, ArrayStep |-> -1],
             Visited |-> 0, Free |-> 0, next |-> -1, made |-> FALSE]

\* HeapData* NULL
NoData == [TypeIndex |-> -1, Size |-> -1, ArrayStep |-> -1]

\* sizeof(void*)
PtrSize == 8

\* no comparison at all: the guard never suppresses a pointer
PtrNeverLess(p, q) == FALSE

\* (char*)p >= (char*)q, the comparison the other way round
PtrNotLess(p, q) == IF p = Wild THEN TRUE ELSE IF q = Wild THEN FALSE ELSE p >= q

\* (char*)p < (char*)q
PtrLess(p, q) == IF p = Wild THEN FALSE ELSE IF q = Wild THEN TRUE ELSE p < q

\* The pointer values a program stores in the heap words the model tracks.
Words == {NULL} \cup HeapAddrs

\* The pointer values handed to a top-level inspection.
Ptrs == {NULL, TextAddr, StackAddr} \cup HeapAddrs

(***************************************************************************)
(* The Type Table of the instrumented program (fixed after loading):       *)
(*   0  int            one scalar field                                    *)
(*   1  struct Node    { int data; struct Node* next; }                    *)
(*   2  pointer to struct Node                                             *)
(***************************************************************************)
TypeTable ==
  [i \in 0..2 |->
     CASE i = 0 -> [Name |-> "int", QuantFields |-> 1,
                    Fields |-> <<[Name |-> "", Format |-> 6, Offset |-> 0, BaseTypeIndex |-> 0]>>]
       [] i = 1 -> [Name |-> "struct Node", QuantFields |-> 2,
                    Fields |-> <<[Name |-> "data", Format |-> 6, Offset |-> 0, BaseTypeIndex |-> 0],
                                 [Name |-> "next", Format |-> 13, Offset |-> 8, BaseTypeIndex |-> 1]>>]
       [] i = 2 -> [Name |-> "pointer to struct Node", QuantFields |-> 1,
                    Fields |-> <<[Name |-> "", Format |-> 13, Offset |-> 0, BaseTypeIndex |-> 1]>>]]

\* the value GetTypeIndex returns for a type it cannot find
NoTypeIndex == 50000

\* The type indexes the Driver passes for the blocks the program allocates:
\* cells and arrays of struct Node*, and blocks of a type it cannot find.
AllocTypes == {2, NoTypeIndex}

\* the largest element count of an allocation of the program
MaxSize == 9

\* the element counts of the allocations of the program
AllocSizes == {1, MaxSize}

WhiroIsScalarType(Format) == Format > 0 /\ Format <= 12

VARIABLES
  HeapTable,   \* head of the table: the first entry in iteration order, or NoEntry
  tail,        \* hh.tbl->tail: the last entry appended
  entries,     \* the HeapEntry structs, by Key: Data, Visited, Free, next (hh.next)
               \* and made (the struct was allocated)
  live,        \* the heap addresses that are allocated in the program
  mode,        \* InsHeap, InsStack, MemFilter, Precise, set by WhiroOpenTypeTable
  released,    \* the addresses passed to free and not allocated since
  status,      \* "running", or how the process stopped
  last,        \* the latest injected call and what it did
  func,        \* the function the pass instruments: its variable and debug records
  phase,       \* "scan", "run", "done" of the pass and of the instrumented function
  pc,          \* the debug intrinsic InstrumentFunction visits next
  CurrentStackMap, \* the trace of the variable: the debug intrinsics the pass kept
  ValidDef,    \* what the inspection point reports the variable from
  exec,        \* the instrumented function executing: block, source value, slots
  rendered,    \* the value the inspection point rendered for the variable
  opts,        \* the options the pass instrumented the program with
  stack,       \* the activations of the running program, the running one last
  counter,     \* the global call counter of f
  entered,     \* the number of entries into f so far
  file,        \* the output file: "unopened", "open", "closed"
  point,       \* the latest inspection point executed and what it wrote
  halt,        \* "no", or how the program halted: "exit", "return", "crash"
  table,       \* the type descriptors the pass serialises
  ttfile,      \* the Type Table file
  loaded,      \* the Type Table as WhiroOpenTypeTable read it
  ttstatus,    \* "start", "written", then "returned" or "exit" of the loader
  harr,        \* the memory of an array of scalars
  hfmt,        \* the format of its elements
  hlast,       \* the last call of WhiroComputeHashcode and its result
  program,     \* the debug types of the program the pass reifies
  rtable,      \* the Type Table the pass made of them
  rres,        \* the latest inspection of a variable of the program
  rphase,      \* "pass" before the Type Table is made, then "run"
  heapop,      \* the allocation call the pass handled last
  sel          \* the latest selection of a definition of x by GetValidDef

heapvars == <<HeapTable, tail, entries, live, released, mode, status, last>>

livevars == <<func, phase, pc, CurrentStackMap, ValidDef, exec, rendered>>

runvars == <<opts, stack, counter, entered, file, point, halt>>

ttvars == <<table, ttfile, loaded, ttstatus>>

hashvars == <<harr, hfmt, hlast>>

reifyvars == <<program, rtable, rres, rphase>>

countvars == <<heapop>>

selvars == <<sel>>

vars == <<HeapTable, tail, entries, live, released, mode, status, last,
          func, phase, pc, CurrentStackMap, ValidDef, exec, rendered,
          opts, stack, counter, entered, file, point, halt,
          table, ttfile, loaded, ttstatus, harr, hfmt, hlast,
          program, rtable, rres, rphase, heapop, sel>>


(***************************************************************************)
(* Heap Table (lib/HeapTable.c).  HASH_FIND is a lookup by key among the   *)
(* entries that were added; the entries are chained in the order of the    *)
(* HASH_ADD calls through hh.next, and the loops of the library walk that  *)
(* chain from the head.                                                    *)
(***************************************************************************)

\* HASH_FIND(hh, HeapTable, &Block, sizeof(void*), Entry)
HASH_FIND(tbl, Block) == IF Block \in Keys /\ tbl[Block].made THEN Block ELSE NoEntry

\* HASH_ADD(hh, HeapTable, Key, sizeof(void*), Entry) on the table (head, tl,
\* tbl), tbl already holding the struct of Entry: the first add makes the
\* table; every other add clears Entry's hh.next, links the tail to Entry and
\* makes Entry the tail, with no test for Entry being in the table already.
HASH_ADD(head, tl, tbl, Entry) ==
  IF head = NoEntry
    THEN [head |-> Entry, tail |-> Entry,
          tbl |-> [tbl EXCEPT ![Entry].next = NoEntry]]
    ELSE LET t1 == [tbl EXCEPT ![Entry].next = NoEntry]
             t2 == [t1 EXCEPT ![tl].next = Entry]
         IN [head |-> head, tail |-> Entry, tbl |-> t2]

\* void WhiroInsertHeapEntry(void* Block, int Size, int ArrayStep, int TypeIndex)
WhiroInsertHeapEntry(head, tl, tbl, Block, Size, ArrayStep, TypeIndex) ==
  LET Entry == HASH_FIND(tbl, Block)
      t0 == IF Entry = NoEntry THEN [tbl EXCEPT ![Block].made = TRUE] ELSE tbl
      t1 == [t0 EXCEPT ![Block].Data = [TypeIndex |-> TypeIndex, Size |-> Size,
                                        ArrayStep |-> ArrayStep],
                       ![Block].Visited = 0,
                       ![Block].Free = 0]
  IN HASH_ADD(head, tl, t1, Block)

\* void WhiroUpdateHeapEntrySize(void* Block, int NewSize): the table after the
\* call, and whether the call wrote through a NULL Data.
WhiroUpdateHeapEntrySize(tbl, Block, NewSize) ==
  LET Entry == HASH_FIND(tbl, Block)
  IN IF Entry = NoEntry THEN [tbl |-> tbl, fault |-> FALSE]
     ELSE IF tbl[Entry].Data = NoData THEN [tbl |-> tbl, fault |-> TRUE]
     ELSE [tbl |-> [tbl EXCEPT ![Entry].Data.Size = NewSize,
                               ![Entry].Data.ArrayStep = NewSize],
           fault |-> FALSE]

\* void WhiroDeleteHeapEntry(void* Block)
WhiroDeleteHeapEntry(tbl, Block) ==
  LET Entry == HASH_FIND(tbl, Block)
  IN IF Entry = NoEntry THEN tbl
     ELSE [tbl EXCEPT ![Entry].Free = 1, ![Entry].Data = NoData]

\* The entries a loop "for(Entry = HeapTable; Entry != NULL; Entry =
\* Entry->hh.next)" visits, in order, and whether the chain comes back to an
\* entry it has visited (the loop then never ends).
RECURSIVE Chain(_, _, _)
Chain(tbl, Entry, seen) ==
  IF Entry = NoEntry THEN [order |-> seen, cyclic |-> FALSE]
  ELSE IF \E i \in 1..Len(seen) : seen[i] = Entry THEN [order |-> seen, cyclic |-> TRUE]
  ELSE Chain(tbl, tbl[Entry].next, Append(seen, Entry))

IterationOrder == Chain(entries, HeapTable, <<>>)

(***************************************************************************)
(* Memory as the inspector reads it.  mem gives, for every mapped object,  *)
(* its first two 8-byte words; the bytes after them are zero.  A read      *)
(* through an address that is not mapped faults.                           *)
(***************************************************************************)
Mapped(mem, a) == a \in DOMAIN mem

\* the word of the object at base that starts at byte 8*j
WordAt(mem, base, j) == IF j \in 0..1 THEN mem[base][j] ELSE 0

\* the k low bytes of a two-byte word, and the word without them (0 < k < 8)
LowBytes(w, k) == IF k >= 2 THEN w ELSE w % 256
DropBytes(w, k) == IF k >= 2 THEN 0 ELSE w \div 256

\* *(void**)(base + off): the 8 bytes that start off bytes after base.  When
\* off is not a multiple of 8 they are the high bytes of one word followed by
\* the low bytes of the next.
ReadPtr(mem, base, off) ==
  LET j == off \div PtrSize
      k == off % PtrSize
  IN IF k = 0 THEN WordAt(mem, base, j)
     ELSE IF LowBytes(WordAt(mem, base, j + 1), k) # 0 THEN Wild
     ELSE DropBytes(WordAt(mem, base, j), k)

(***************************************************************************)
(* Composite Inspector and heap inspection.  An inspection threads a       *)
(* record st through the calls:                                            *)
(*   vis     the entries whose Visited field is 1                          *)
(*   lines   the lines written to the output file                          *)
(*   visits  the entries WhiroInspectHeapData went on to render            *)
(*   deref   the addresses read through                                    *)
(*   status  "ok"; "fault" after a read through an unmapped address;       *)
(*           "diverge" when a call is entered with the arguments and the   *)
(*           Visited fields of an enclosing call (the recursion then       *)
(*           repeats for ever);                                            *)
(*           "hang" when a loop over the table never reaches NULL.         *)
(* frames is the set of the enclosing calls that can recur without a       *)
(* Visited test in between: <<Entry, -1, vis>> for WhiroInspectHeapArray   *)
(* and <<Ptr, TypeIndex, vis>> for WhiroInspectData on an address that has *)
(* no entry.                                                               *)
(***************************************************************************)
Emit(st, line) == [st EXCEPT !.lines = Append(@, line)]

Touch(st, a) == [st EXCEPT !.deref = @ \cup {a}]

\* void WhiroSetAllHeapUnivisited()
WhiroSetAllHeapUnivisited(st) ==
  IF st.status # "ok" THEN st
  ELSE LET c == IterationOrder
           reached == {c.order[i] : i \in 1..Len(c.order)}
       IN [st EXCEPT !.vis = @ \ reached,
                     !.status = IF c.cyclic THEN "hang" ELSE "ok"]

RECURSIVE WhiroInspectDataFrom(_, _, _, _, _, _)
RECURSIVE WhiroTrackPointer(_, _, _, _, _)
RECURSIVE WhiroInspectHeapData(_, _, _, _)
RECURSIVE WhiroInspectHeapArray(_, _, _, _)
RECURSIVE WhiroInspectSlots(_, _, _, _, _)

\* void WhiroInspectPointer(OutputFile, Ptr, TypeIndex, Name, FuncName, CallCounter)
WhiroInspectPointer(mem, frames, st, Ptr, TypeIndex) ==
  IF st.status # "ok" THEN st
  ELSE IF mode.Precise
    THEN WhiroSetAllHeapUnivisited(WhiroTrackPointer(mem, frames, st, Ptr, TypeIndex))
    ELSE Emit(st, [k |-> "pointer to", a |-> Ptr])

\* the iterations i, i+1, ... of the loop over the fields in WhiroInspectData
WhiroInspectDataFrom(mem, frames, st, Data, DataType, i) ==
  IF st.status # "ok" \/ i > TypeTable[DataType].QuantFields THEN st
  ELSE LET F == TypeTable[DataType].Fields[i]
           s1 ==
             IF WhiroIsScalarType(F.Format)
               THEN IF Mapped(mem, Data)
                      THEN Emit(Touch(st, Data), [k |-> "scalar", a |-> Data])
                      ELSE [Touch(st, Data) EXCEPT !.status = "fault"]
             ELSE IF F.Format = 13
               THEN IF mode.Precise
                      THEN IF Mapped(mem, Data)
                             THEN WhiroTrackPointer(mem, frames, Touch(st, Data),
                                                    ReadPtr(mem, Data, F.Offset), F.BaseTypeIndex)
                             ELSE [Touch(st, Data) EXCEPT !.status = "fault"]
                      ELSE Emit(st, [k |-> "pointer to", a |-> Data])
             ELSE st
       IN WhiroInspectDataFrom(mem, frames, s1, Data, DataType, i + 1)

\* void WhiroInspectData(OutputFile, Data, DataType, Name, FuncName, CallCounter)
WhiroInspectData(mem, frames, st, Data, DataType) ==
  WhiroInspectDataFrom(mem, frames, st, Data, DataType, 1)

\* void WhiroTrackPointer(OutputFile, Ptr, TypeIndex, Name, FuncName, CallCounter)
WhiroTrackPointer(mem, frames, st, Ptr, TypeIndex) ==
  IF st.status # "ok" THEN st
  ELSE LET Entry == HASH_FIND(entries, Ptr)
       IN IF Entry # NoEntry
            THEN IF mode.MemFilter /\ ~mode.InsHeap THEN st
                 ELSE WhiroInspectHeapData(mem, frames, st, Entry)
          ELSE IF Ptr # NULL
            THEN IF mode.MemFilter /\ ~mode.InsStack THEN st
                 ELSE IF PtrLess(Ptr, Etext) THEN st
                 ELSE IF <<Ptr, TypeIndex, st.vis>> \in frames
                   THEN [st EXCEPT !.status = "diverge"]
                 ELSE WhiroInspectData(mem, frames \cup {<<Ptr, TypeIndex, st.vis>>},
                                       st, Ptr, TypeIndex)
          ELSE Emit(st, [k |-> "NULL", a |-> Ptr])

\* void WhiroInspectHeapData(OutputFile, Entry, PtrName, FuncName, CallCounter, FollowPtr)
WhiroInspectHeapData(mem, frames, st, Entry) ==
  IF Entry \in st.vis THEN st
  ELSE LET s1 == [st EXCEPT !.vis = @ \cup {Entry}, !.visits = Append(@, Entry)]
       IN IF entries[Entry].Free = 1 THEN Emit(s1, [k |-> "freed", a |-> Entry])
          ELSE IF entries[Entry].Data.Size > 1 THEN WhiroInspectHeapArray(mem, frames, s1, Entry)
          ELSE WhiroInspectData(mem, frames, s1, Entry, entries[Entry].Data.TypeIndex)

\* the iterations i, i+1, ... of the loop over the slots in WhiroInspectHeapArray:
\* slot i is read at Entry->Key + i, Key being a void*
WhiroInspectSlots(mem, frames, st, Entry, i) ==
  IF st.status # "ok" \/ i >= entries[Entry].Data.Size THEN st
  ELSE IF ~Mapped(mem, Entry) THEN [Touch(st, Entry) EXCEPT !.status = "fault"]
  ELSE WhiroInspectSlots(mem, frames,
         WhiroInspectPointer(mem, frames, Touch(st, Entry), ReadPtr(mem, Entry, i),
                             TypeTable[entries[Entry].Data.TypeIndex].Fields[1].BaseTypeIndex),
         Entry, i + 1)

\* void WhiroInspectHeapArray(OutputFile, Entry, PtrName, FuncName, CallCounter)
WhiroInspectHeapArray(mem, frames, st, Entry) ==
  LET Format == TypeTable[entries[Entry].Data.TypeIndex].Fields[1].Format
  IN IF WhiroIsScalarType(Format)
       THEN IF Mapped(mem, Entry)
              THEN Emit(Touch(st, Entry), [k |-> "hash", a |-> Entry])
              ELSE [Touch(st, Entry) EXCEPT !.status = "fault"]
     ELSE IF Format = 13
       THEN IF <<Entry, -1, st.vis>> \in frames THEN [st EXCEPT !.status = "diverge"]
            ELSE WhiroInspectSlots(mem, frames \cup {<<Entry, -1, st.vis>>}, st, Entry, 0)
     ELSE st

\* the iterations i, i+1, ... of the loop over the table in WhiroInspectEntireHeap
RECURSIVE WhiroInspectEntries(_, _, _, _)
WhiroInspectEntries(mem, st, order, i) ==
  IF st.status # "ok" \/ i > Len(order) THEN st
  ELSE WhiroInspectEntries(mem,
         IF entries[order[i]].Free = 0 THEN WhiroInspectHeapData(mem, {}, st, order[i]) ELSE st,
         order, i + 1)

\* void WhiroInspectEntireHeap(OutputFile, FuncName, CallCounter)
WhiroInspectEntireHeap(mem, st) ==
  LET c == IterationOrder
      s1 == WhiroInspectEntries(mem, st, c.order, 1)
  IN IF s1.status = "ok" /\ c.cyclic THEN [s1 EXCEPT !.status = "hang"]
     ELSE WhiroSetAllHeapUnivisited(s1)

\* void WhiroInspectStruct(OutputFile, Struct, TypeIndex, Name, FuncName, CallCounter)
WhiroInspectStruct(mem, st, Struct, TypeIndex) ==
  WhiroInspectData(mem, {}, st, Struct, TypeIndex)

(***************************************************************************)
(* The instrumented program.                                               *)
(***************************************************************************)

\* void WhiroOpenTypeTable(ProgramName, TableSize, InsHeapArg, InsStackArg, PreciseArg)
WhiroOpenTypeTable(InsHeapArg, InsStackArg, PreciseArg) ==
  [InsHeap |-> InsHeapArg, InsStack |-> InsStackArg,
   MemFilter |-> InsHeapArg \/ InsStackArg, Precise |-> PreciseArg]

\* The arguments the pass gives WhiroOpenTypeTable: -hp turns -pr on.
Modes ==
  {WhiroOpenTypeTable(h, s, p) : <<h, s, p>> \in
     {<<FALSE, FALSE, FALSE>>, <<FALSE, FALSE, TRUE>>,
      <<TRUE, FALSE, TRUE>>, <<FALSE, TRUE, TRUE>>}}

\* DataLayout::getTypeAllocSize of the element types of the allocations
TypeAllocSize(ty) == IF ty = 2 THEN PtrSize ELSE IF ty = 0 THEN 4 ELSE 2 * PtrSize

\* The element count MemoryMonitor::HandleHeapOperation passes to the Heap
\* Table for the call fn(ops): the bytes are operand 1 of realloc and operand 0
\* of every other allocation function.
QuantAllocated(fn, ops, ty) ==
  LET AllocatedBytes == IF fn = "realloc" THEN ops[2] ELSE ops[1]
  IN AllocatedBytes \div TypeAllocSize(ty)

\* the state of an inspection that has not started
NewInspection ==
  [vis |-> {k \in Keys : entries[k].Visited = 1},
   lines |-> <<>>, visits |-> <<>>, deref |-> {}, status |-> "ok"]

NoInspection == [lines |-> <<>>, visits |-> <<>>, deref |-> {}]

\* The contents of the heap objects at an inspection point: each object holds
\* one pointer value in both of its words (the next field of a struct Node,
\* the first two elements of an array of pointers).
HeapMems == {[a \in HeapAddrs |-> [j \in 0..1 |-> f[a]]] : f \in [HeapAddrs -> Words]}

\* memory with the stack object holding w in its second word
Memory(hm, w) ==
  [a \in HeapAddrs \cup {StackAddr} |->
     IF a = StackAddr THEN [j \in 0..1 |-> IF j = 1 THEN w ELSE NULL] ELSE hm[a]]

\* the latest injected call: its name, its pointer argument, the element count
\* and type index it passed, and what an inspection did
Call(op, ptr, q, ty, res) == [op |-> op, ptr |-> ptr, q |-> q, ty |-> ty, res |-> res]

(***************************************************************************)
(* The pass on one function (MemoryMonitor::InstrumentFunction) and one    *)
(* local variable x of it.  The function has five basic blocks:            *)
(*        0 -> 1 -> 2 -> 4        0 -> 3 -> 4                              *)
(* block 0 is the entry block and block 4 ends in the return (after        *)
(* -mergereturn the only one).  x either lives in an alloca (a dbg.declare *)
(* in the entry block, assignments are stores) or is an SSA variable       *)
(* (every assignment is a dbg.value); each block assigns x at most once.   *)
(***************************************************************************)
Blocks == 0..4

EntryBlock == 0

\* the block whose terminator is a ReturnInst
RetBlock == 4

Succ ==
  [b \in Blocks |-> CASE b = 0 -> {1, 3} [] b = 1 -> {2} [] b = 2 -> {4}
                      [] b = 3 -> {4} [] OTHER -> {}]

\* pred_begin(b) .. pred_end(b)
Pred(b) == {p \in Blocks : b \in Succ[p]}

RECURSIVE PathsFrom(_)
PathsFrom(b) ==
  IF Succ[b] = {} THEN {<<b>>}
  ELSE {<<b>> \o p : p \in UNION {PathsFrom(t) : t \in Succ[b]}}

\* DominatorTree::dominates(Def, InsBlock): the block of Def is another block
\* than InsBlock and lies on every path from the entry to InsBlock
Dominates(a, b) ==
  /\ a # b
  /\ \A p \in PathsFrom(EntryBlock) :
       \A i \in 1..Len(p) : p[i] = b => \E j \in 1..i : p[j] = a

\* a value nobody knows: an uninitialized or optimized-out variable
Unknown == -1

\* What a block assigns to x: nothing, the constant zero, a nonzero constant,
\* the result of an instruction of the block, or undef.
AssignKinds == {"none", "zero", "const", "inst", "undef"}

\* the run-time value of an assignment of kind k in block b
Val(k, b) ==
  CASE k = "zero" -> 0
    [] k = "const" -> 10 + b
    [] k = "inst" -> 20 + b
    [] OTHER -> Unknown

\* the functions the pass is run on
Funcs == {[resident |-> r, assign |-> a] : r \in BOOLEAN, a \in [Blocks -> AssignKinds]}

NoFunc == [resident |-> FALSE, assign |-> [b \in Blocks |-> "none"]]

\* a debug intrinsic of x: the block it is in and the kind of its operand
DVIOf(b, k) == [block |-> b, kind |-> k]

NoDVI == DVIOf(-1, "none")

\* Constant::getNullValue
NullValue == DVIOf(-1, "zero")

\* the debug intrinsics of x in the order instructions(F) visits them
RECURSIVE DbgFrom(_, _)
DbgFrom(F, b) ==
  IF b \notin Blocks THEN <<>>
  ELSE (IF F.assign[b] = "none" THEN <<>> ELSE <<DVIOf(b, F.assign[b])>>) \o DbgFrom(F, b + 1)

Instructions(F) ==
  IF F.resident THEN <<DVIOf(EntryBlock, "declare")>> ELSE DbgFrom(F, EntryBlock)

\* MemoryMonitor::UpdateStackMap: debug intrinsics whose value is undef or a
\* null constant are not tracked; the others are appended to the trace.
UpdateStackMap(Trace, DVI) ==
  IF DVI.kind # "declare" /\ DVI.kind \in {"undef", "zero"}
    THEN Trace
    ELSE Append(Trace, DVI)

\* what GetValidDef hands to InspectVariable
NoValidDef ==
  [via |-> "none", def |-> NoDVI, incoming |-> [b \in Blocks |-> NoDVI], stores |-> {}]

\* the loop of GetValidDef over the trace, from its i-th element on
RECURSIVE SelectDef(_, _, _, _)
SelectDef(Trace, i, InsBlock, Chosen) ==
  IF i > Len(Trace) THEN Chosen
  ELSE LET Def == Trace[i]
       IN IF Def.kind = "declare"
            THEN [NoValidDef EXCEPT !.via = "alloca", !.def = Def]
          ELSE IF Def.block = RetBlock
            THEN SelectDef(Trace, i + 1, InsBlock, [NoValidDef EXCEPT !.via = "def", !.def = Def])
          ELSE IF Dominates(Def.block, InsBlock)
            THEN SelectDef(Trace, i + 1, InsBlock, [NoValidDef EXCEPT !.via = "def", !.def = Def])
          ELSE SelectDef(Trace, i + 1, InsBlock, Chosen)

\* the incoming values of the phi of ExtendLiveRange after the first i
\* elements of the trace: a later definition of a block replaces an earlier
RECURSIVE Incoming(_, _, _)
Incoming(Trace, i, InsBlock) ==
  IF i = 0 THEN [b \in Blocks |-> NoDVI]
  ELSE LET inc == Incoming(Trace, i - 1, InsBlock)
           Def == Trace[i]
       IN IF Def.block \in Pred(InsBlock) THEN [inc EXCEPT ![Def.block] = Def] ELSE inc

\* MemoryMonitor::ExtendLiveRange: a phi in InsBlock over the definitions in
\* its predecessors, null for the predecessors without one; nullptr
\* (NoValidDef) when no definition is in a predecessor.  Every definition of
\* these functions is in the block of its debug intrinsic.
ExtendLiveRange(Trace, InsBlock) ==
  LET inc == Incoming(Trace, Len(Trace), InsBlock)
  IN IF \E b \in Blocks : inc[b] # NoDVI
       THEN [NoValidDef EXCEPT
               !.via = "phi",
               !.incoming = [b \in Blocks |->
                               IF b \in Pred(InsBlock) /\ inc[b] = NoDVI THEN NullValue ELSE inc[b]]]
       ELSE NoValidDef

\* MemoryMonitor::ShadowInStack: a slot initialized with null in the entry
\* block, and a store of every definition of the trace right after its debug
\* intrinsic
ShadowInStack(Trace) ==
  [NoValidDef EXCEPT !.via = "shadow", !.stores = {Trace[i] : i \in 1..Len(Trace)}]

\* MemoryMonitor::GetValidDef
GetValidDef(Trace, InsBlock) ==
  LET Chosen == SelectDef(Trace, 1, InsBlock, NoValidDef)
      PN == ExtendLiveRange(Trace, InsBlock)
  IN IF Chosen # NoValidDef THEN Chosen
     ELSE IF PN # NoValidDef THEN PN
     ELSE ShadowInStack(Trace)

\* The instrumented function executing: the block it is in and the one it
\* came from, the value x has in the source program, the content of the
\* alloca of x and of its shadow slot.
NoExec == [blk |-> -1, prev |-> -1, x |-> Unknown, mem |-> Unknown, slot |-> 0]

(***************************************************************************)
(* The instrumented program running, seen from its calls and halts: main   *)
(* and a function f that any function may call (f is recursive), calls to  *)
(* exit, the per-function call counter, the output file, and the snapshot  *)
(* each inspection point writes.  Variable names are numbers ordered as    *)
(* std::string orders the names: locals 1 and 2, the static 3.             *)
(***************************************************************************)
\* the deepest call stack of the runs explored
MaxDepth == 3

\* the most entries into f of the runs explored
MaxCalls == 3

LocalNames == {1, 2}

StaticNames == {3}

\* the orders in which the debug intrinsics of a function first mention its
\* locals
ObsOrders == {<<1, 2>>, <<2, 1>>}

\* the options of the pass: -om, -fp, and the memory filter (MemFilter with
\* InsStack or InsStatic)
Options ==
  {[OnlyMain |-> om, InsFullHeap |-> fp, filter |-> flt, obs |-> o] :
     om \in BOOLEAN, fp \in BOOLEAN, flt \in {"none", "stack", "static"}, o \in ObsOrders}

NoOptions == [OnlyMain |-> FALSE, InsFullHeap |-> FALSE, filter |-> "none", obs |-> <<1, 2>>]

\* the keys in descending order
RECURSIVE MapOrderDescending(_)
MapOrderDescending(S) ==
  IF S = {} THEN <<>>
  ELSE LET greatest == CHOOSE x \in S : \A y \in S : x >= y
       IN <<greatest>> \o MapOrderDescending(S \ {greatest})

\* the keys of a std::map in the order its iterator visits them
RECURSIVE MapOrder(_)
MapOrder(S) ==
  IF S = {} THEN <<>>
  ELSE LET least == CHOOSE x \in S : \A y \in S : x <= y
       IN <<least>> \o MapOrder(S \ {least})

\* the names in the order of their first occurrence in a sequence
RECURSIVE FirstOccurrences(_)
FirstOccurrences(seq) ==
  IF seq = <<>> THEN <<>>
  ELSE LET init == FirstOccurrences(SubSeq(seq, 1, Len(seq) - 1))
           x == seq[Len(seq)]
       IN IF \E i \in 1..Len(init) : init[i] = x THEN init ELSE Append(init, x)

\* CurrentStackMap after UpdateStackMap has seen the debug intrinsics obs:
\* a std::map keyed on the variable name
StackMapKeys(obs) == {obs[i] : i \in 1..Len(obs)}

\* a line of a snapshot
Line(kind, var, fn, call) == [kind |-> kind, var |-> var, fn |-> fn, call |-> call]

\* the lines of seq, each qualified with function and call counter
RECURSIVE LinesOf(_, _, _, _)
LinesOf(kind, seq, fn, call) ==
  IF seq = <<>> THEN <<>>
  ELSE <<Line(kind, Head(seq), fn, call)>> \o LinesOf(kind, Tail(seq), fn, call)

\* The calls CreateInspectionPoint injects, by what they write: the locals in
\* the order of the loop over CurrentStackMap (none when only the statics are
\* inspected), then the statics in the order of the loop over StaticMap
\* (none when the filter excludes them).
InspectionPointLines(o, fn, call) ==
  (IF o.filter = "static" THEN <<>>
   ELSE LinesOf("local", MapOrder(StackMapKeys(o.obs)), fn, call))
  \o (IF o.filter = "stack" THEN <<>>
      ELSE LinesOf("static", MapOrder(StaticNames), fn, call))

\* the line WhiroInspectEntireHeap writes for the heap of the program
HeapDumpLines(fn, call) == <<Line("heap", 0, fn, call)>>

\* InstrumentFunction runs on F: on every function, or on main alone with -om
Instrumented(o, fn) == ~o.OnlyMain \/ fn = "main"

\* the value CreateFunctionCounter returns: the counter loaded at the entry
\* of the function, plus one
CreateFunctionCounter(CounterLoad) == CounterLoad + 1

\* the call counter an inspection point of the activation reports, reloaded
\* from the global counter
ReloadedCounter(act, cnt) == cnt

\* the call counter an inspection point of the activation act reports: the
\* value computed at the entry of the activation (constant 1 in main)
CallCounter(act, cnt) == act.call

\* an activation of function fn: its call counter value and the number of
\* entries into fn when it started
Activation(fn, call, nth) == [fn |-> fn, call |-> call, nth |-> nth]

\* the latest inspection point: where, which activation, what was written,
\* and whether the call of WhiroInspectEntireHeap was executed after it
NoPoint == [at |-> "none", fn |-> "", nth |-> 0, lines |-> <<>>, dumped |-> FALSE]

(***************************************************************************)
(* The Type Table file: written by the pass (WriteTypeDescriptor), read by *)
(* the instrumented program (WhiroOpenTypeTable).  A file is a sequence of *)
(* bytes, a name a sequence of nonzero bytes, an int four little-endian    *)
(* bytes.                                                                  *)
(***************************************************************************)
MAX_NAME_LENGTH == 128

\* the letter the names are made of, and the dot of a truncated name
Letter == 65

Dot == 46

NameOfLength(n) == [i \in 1..n |-> Letter]

\* the lengths of the type names and of the field names of the program
TypeNameLengths == {4, 128}

FieldNameLengths == {3, 128, 130}

\* a field name longer than 128 characters is cut to 125 and "..."
TruncateName(name) ==
  IF Len(name) > 128 THEN SubSeq(name, 1, 125) \o <<Dot, Dot, Dot>> ELSE name

\* the bytes of an int, and the int of four bytes
Int32Bytes(v) ==
  LET w == IF v < 0 THEN (v + 2147483647) + 1 ELSE v
      top == (w \div 16777216) + (IF v < 0 THEN 128 ELSE 0)
  IN <<w % 256, (w \div 256) % 256, (w \div 65536) % 256, top>>

Int32Of(b) ==
  IF b[4] >= 128
    THEN ((b[1] + 256 * b[2] + 65536 * b[3] + 16777216 * (b[4] - 128)) - 2147483647) - 1
    ELSE b[1] + 256 * b[2] + 65536 * b[3] + 16777216 * b[4]

\* the C string at the start of a byte sequence: the bytes before the first 0
CString(b) ==
  IF \E i \in 1..Len(b) : b[i] = 0
    THEN SubSeq(b, 1, (CHOOSE i \in 1..Len(b) : b[i] = 0 /\ \A j \in 1..(i - 1) : b[j] # 0) - 1)
    ELSE b

\* fwrite(name, sizeof(char), 129, file): the 129 bytes at the address of the
\* string, g being the content of the memory behind its terminator
FwriteName(name, g) ==
  [i \in 1..(MAX_NAME_LENGTH + 1) |->
     IF i <= Len(name) THEN name[i] ELSE IF i = Len(name) + 1 THEN 0 ELSE g]

FieldOf(name, Format, Offset, BaseTypeIndex) ==
  [Name |-> name, Format |-> Format, Offset |-> Offset, BaseTypeIndex |-> BaseTypeIndex]

Descriptor(name, fields) == [Name |-> name, QuantFields |-> Len(fields), Fields |-> fields]

\* The type descriptors of the programs: a scalar type (one unnamed field),
\* a pointer type, and struct types of two named fields.
Descriptors ==
  {Descriptor(NameOfLength(n), <<FieldOf(<<>>, f, 0, f)>>) : n \in TypeNameLengths, f \in {6, 13}}
  \cup {Descriptor(NameOfLength(n),
                   <<FieldOf(NameOfLength(m), 6, 0, 6), FieldOf(NameOfLength(3), 13, 8, 1)>>) :
          n \in TypeNameLengths, m \in FieldNameLengths}

\* the Type Tables of the programs: one or two descriptors
Tables == {<<d>> : d \in Descriptors} \cup {<<d, e>> : d \in {Descriptor(NameOfLength(4), <<FieldOf(<<>>, 6, 0, 6)>>)}, e \in Descriptors}

\* the field records WriteTypeDescriptor writes for the fields from the i-th on
RECURSIVE WriteFields(_, _, _)
WriteFields(fields, i, g) ==
  IF i > Len(fields) THEN <<>>
  ELSE FwriteName(TruncateName(fields[i].Name), g)
       \o Int32Bytes(fields[i].Format) \o Int32Bytes(fields[i].Offset)
       \o Int32Bytes(fields[i].BaseTypeIndex)
       \o WriteFields(fields, i + 1, g)

\* MemoryMonitor::WriteTypeDescriptor
WriteTypeDescriptor(d, g) ==
  FwriteName(d.Name, g) \o Int32Bytes(d.QuantFields) \o WriteFields(d.Fields, 1, g)

\* the loop of CreateTypeTable over the types, from the i-th on
RECURSIVE WriteTable(_, _, _)
WriteTable(tbl, i, g) ==
  IF i > Len(tbl) THEN <<>>
  ELSE WriteTypeDescriptor(tbl[i], g) \o WriteTable(tbl, i + 1, g)

\* fread(ptr, 1, n, file) at position pos: the bytes it delivers
Fread(bytes, pos, n) ==
  SubSeq(bytes, pos + 1, IF pos + n <= Len(bytes) THEN pos + n ELSE Len(bytes))

\* the position of the file after that fread
Advance(bytes, pos, n) == IF pos + n <= Len(bytes) THEN pos + n ELSE Len(bytes)

\* a block of memory after the bytes b were copied to its offset off
Store(mem, off, b) ==
  [i \in 1..Len(mem) |-> IF i > off /\ i <= off + Len(b) THEN b[i - off] ELSE mem[i]]

\* malloc'ed memory of n bytes, u being what the allocator left in it
Uninitialized(n, u) == [i \in 1..n |-> u]

\* the int at offset off of a block of memory
IntAt(mem, off) == Int32Of(SubSeq(mem, off + 1, off + 4))

\* The fields j, j+1, ... of a descriptor as WhiroOpenTypeTable reads them:
\* struct Field is char Name[128]; int Format; int Offset; int BaseTypeIndex,
\* and 129 bytes are read to Name.
RECURSIVE ReadFields(_, _, _, _, _)
ReadFields(bytes, pos, j, QuantFields, u) ==
  IF j >= QuantFields THEN [fields |-> <<>>, pos |-> pos]
  ELSE LET m0 == Uninitialized(140, u)
           m1 == Store(m0, 0, Fread(bytes, pos, MAX_NAME_LENGTH + 1))
           p1 == Advance(bytes, pos, MAX_NAME_LENGTH + 1)
           m2 == Store(m1, 128, Fread(bytes, p1, 4))
           p2 == Advance(bytes, p1, 4)
           m3 == Store(m2, 132, Fread(bytes, p2, 4))
           p3 == Advance(bytes, p2, 4)
           m4 == Store(m3, 136, Fread(bytes, p3, 4))
           p4 == Advance(bytes, p3, 4)
           rest == ReadFields(bytes, p4, j + 1, QuantFields, u)
       IN [fields |-> <<FieldOf(CString(m4), IntAt(m4, 128), IntAt(m4, 132), IntAt(m4, 136))>>
                      \o rest.fields,
           pos |-> rest.pos]

\* The descriptors i, i+1, ... as WhiroOpenTypeTable reads them: struct
\* TypeDescriptor is char Name[128]; int QuantFields; Field* Fields.
RECURSIVE ReadTable(_, _, _, _, _)
ReadTable(bytes, pos, i, TableSize, u) ==
  IF i >= TableSize THEN <<>>
  ELSE LET m0 == Uninitialized(132, u)
           m1 == Store(m0, 0, Fread(bytes, pos, MAX_NAME_LENGTH + 1))
           p1 == Advance(bytes, pos, MAX_NAME_LENGTH + 1)
           m2 == Store(m1, 128, Fread(bytes, p1, 4))
           p2 == Advance(bytes, p1, 4)
           q == IntAt(m2, 128)
           f == ReadFields(bytes, p2, 0, q, u)
       IN <<[Name |-> CString(m2), QuantFields |-> q, Fields |-> f.fields]>>
          \o ReadTable(bytes, f.pos, i + 1, TableSize, u)

\* the Type Table file: absent, or its bytes, whole as written or cut short
NoFile == [exists |-> FALSE, bytes |-> <<>>, whole |-> FALSE]

\* what the Type Reifier serialised: the names as written (a field name cut
\* to 128 characters), the numbers as given
SerialisedField(f) == [f EXCEPT !.Name = TruncateName(f.Name)]

Serialised(tbl) ==
  [i \in 1..Len(tbl) |->
     [Name |-> CString(FwriteName(tbl[i].Name, 0)),
      QuantFields |-> tbl[i].QuantFields,
      Fields |-> [j \in 1..Len(tbl[i].Fields) |-> SerialisedField(tbl[i].Fields[j])]]]

(***************************************************************************)
(* Array Hash Calculator (lib/ArrayHashCalculator.c).  An array is a       *)
(* sequence of elements, each the little-endian bytes of a value of the    *)
(* element type; an int is a number of -2^31 .. 2^31 - 1.                  *)
(***************************************************************************)
MaxElements == 3

\* the formats of the scalar integer types, and the format of a pointer
IntFormats == 3..12

Formats == IntFormats \cup {13}

\* sizeof of the element type of a format: short, long, long long, int,
\* char, unsigned char, unsigned short, unsigned long, unsigned long long,
\* unsigned int, pointer
Width(Format) ==
  CASE Format \in {7, 8} -> 1
    [] Format \in {3, 9} -> 2
    [] Format \in {6, 12} -> 4
    [] OTHER -> 8

\* the element values of the arrays: zero, a value whose low 32 bits are
\* INT_MAX (or one, for the narrow types), and all bits set
Elements(Format) ==
  CASE Width(Format) = 1 -> {<<0>>, <<1>>, <<255>>}
    [] Width(Format) = 2 -> {<<0, 0>>, <<1, 0>>, <<255, 255>>}
    [] Width(Format) = 4 -> {<<0, 0, 0, 0>>, <<255, 255, 255, 127>>, <<255, 255, 255, 255>>}
    [] OTHER -> {<<0, 0, 0, 0, 0, 0, 0, 0>>, <<255, 255, 255, 127, 1, 0, 0, 0>>,
                 <<255, 255, 255, 255, 255, 255, 255, 255>>}

INT_MIN == -2147483647 - 1

\* a + b in int, wrapping
AddInt(a, b) ==
  IF b > 0 /\ a > 2147483647 - b THEN ((a - 2147483647) - 1) + ((b - 2147483647) - 1)
  ELSE IF b < 0 /\ a < INT_MIN - b THEN ((a + 2147483647) + 1) + ((b + 2147483647) + 1)
  ELSE a + b

\* a * k in int, wrapping, for a small k >= 0
RECURSIVE MulInt(_, _)
MulInt(a, k) == IF k = 0 THEN 0 ELSE AddInt(MulInt(a, k - 1), a)

\* the value an element adds to 31 * Hashcode, as the int the assignment
\* to Hashcode keeps of it: the narrow types are promoted with or without
\* their sign, the 8-byte types are added in long and the sum is cut to int
AsInt(e, Format) ==
  CASE Format = 7 -> IF e[1] >= 128 THEN e[1] - 256 ELSE e[1]
    [] Format = 8 -> e[1]
    [] Format = 3 -> IF e[2] >= 128 THEN (e[1] + 256 * e[2]) - 65536 ELSE e[1] + 256 * e[2]
    [] Format = 9 -> e[1] + 256 * e[2]
    [] OTHER -> Int32Of(SubSeq(e, 1, 4))

\* Hashcode = 31 * Hashcode + (x == NULL ? 0 : x), with the multiplier of
\* another hash
HashStep37(Hashcode, x) == AddInt(MulInt(Hashcode, 37), IF x = 0 THEN 0 ELSE x)

\* Hashcode = 31 * Hashcode + (x == NULL ? 0 : x)
HashStep(Hashcode, x) == AddInt(MulInt(Hashcode, 31), IF x = 0 THEN 0 ELSE x)

\* The loop of WhiroComputeHashcode1D from iteration i on; Array is the
\* index in mem of the element the pointer argument points to.  A read
\* behind the memory (a block of a Step that does not divide TotalElements)
\* has no defined result.
RECURSIVE Hash1DLoop(_, _, _, _, _, _)
Hash1DLoop(mem, Array, Size, Format, i, Hashcode) ==
  IF i >= Size THEN [kind |-> "value", v |-> Hashcode]
  ELSE IF Array + i >= Len(mem) THEN [kind |-> "overrun", v |-> 0]
  ELSE Hash1DLoop(mem, Array, Size, Format, i + 1,
                  IF Format \in IntFormats
                    THEN HashStep(Hashcode, AsInt(mem[Array + i + 1], Format))
                    ELSE Hashcode)

WhiroComputeHashcode1D(mem, Array, Size, Format) ==
  Hash1DLoop(mem, Array, Size, Format, 0, 1)

\* The loop of WhiroComputeHashcode from i on.  With Step = 0 the loop
\* variable never changes and i < TotalElements stays true: the call does
\* not return.
RECURSIVE HashLoop(_, _, _, _, _, _, _)
HashLoop(mem, TotalElements, Step, Format, i, Hashcode, printed) ==
  IF i >= TotalElements THEN [kind |-> "value", v |-> Hashcode, printed |-> printed]
  ELSE IF Step = 0 THEN [kind |-> "hang", v |-> 0, printed |-> printed]
  ELSE IF Format \in IntFormats
    THEN LET h == WhiroComputeHashcode1D(mem, i, Step, Format)
         IN IF h.kind # "value" THEN [kind |-> h.kind, v |-> 0, printed |-> printed]
            ELSE HashLoop(mem, TotalElements, Step, Format, i + Step,
                          AddInt(Hashcode, h.v), printed)
    ELSE HashLoop(mem, TotalElements, Step, Format, i + Step, Hashcode, printed + 1)

WhiroComputeHashcode(mem, TotalElements, Step, Format) ==
  HashLoop(mem, TotalElements, Step, Format, 0, 0, 0)

\* a call of WhiroComputeHashcode and its result, and the result of calling
\* it once more with the same arguments
HashCall(via, TotalElements, Step, Format, res, again) ==
  [via |-> via, TotalElements |-> TotalElements, Step |-> Step, Format |-> Format,
   res |-> res, again |-> again]

NoResult == [kind |-> "none", v |-> 0, printed |-> 0]

NoHashCall == HashCall("none", 0, 0, 0, NoResult, NoResult)

(***************************************************************************)
(* Type Reifier (MemoryMonitor::CreateTypeTable and the functions it       *)
(* calls) and the Composite Inspector on the table it writes.  A debug     *)
(* type is named by a string; DIType gives its node: the class of the      *)
(* node, its DWARF encoding (basic types) or tag (the others), its name,   *)
(* its base type, the count of an array, its size in bytes and the members *)
(* of a struct.  A program has the types below; its struct Out has an int  *)
(* member x and a member m whose type and place the program chooses.       *)
(***************************************************************************)
Void == "void"

Node(class, Code, Name, BaseType, Count, Size, members) ==
  [class |-> class, Code |-> Code, Name |-> Name, BaseType |-> BaseType,
   Count |-> Count, Size |-> Size, Elements |-> members]

Member(Name, BaseType, Offset) == [Name |-> Name, BaseType |-> BaseType, Offset |-> Offset]

\* the types a member m of struct Out can have
MemberTypes == {"_Bool", "volatile int", "int[4]", "union U", "struct In", "T"}

\* the programs: the type of m, whether m comes first, and the order in
\* which DebugInfoFinder lists the types
TypeOrders ==
  {<<"int", "_Bool", "volatile int", "int[4]", "union U", "struct In", "T", "struct Out">>,
   <<"struct Out", "T", "struct In", "union U", "int[4]", "volatile int", "_Bool", "int">>}

Programs == [member : MemberTypes, first : BOOLEAN, types : TypeOrders]

NoProgram == [member |-> "int", first |-> FALSE, types |-> <<>>]

DIType(prog, t) ==
  CASE t = "int" -> Node("basic", "DW_ATE_signed", "int", Void, 0, 4, <<>>)
    [] t = "_Bool" -> Node("basic", "DW_ATE_boolean", "_Bool", Void, 0, 1, <<>>)
    [] t = "volatile int" -> Node("derived", "DW_TAG_volatile_type", "", "int", 0, 4, <<>>)
    [] t = "T" -> Node("derived", "DW_TAG_typedef", "T", "struct In", 0, 8, <<>>)
    [] t = "int[4]" -> Node("composite", "DW_TAG_array_type", "", "int", 4, 16, <<>>)
    [] t = "union U" -> Node("composite", "DW_TAG_union_type", "U", Void, 0, 8,
                             <<Member("i", "int", 0), Member("j", "int", 0)>>)
    [] t = "struct In" -> Node("composite", "DW_TAG_structure_type", "In", Void, 0, 8,
                               <<Member("a", "int", 0), Member("b", "int", 4)>>)
    [] t = "struct Out" ->
         Node("composite", "DW_TAG_structure_type", "Out", Void, 0, 32,
              IF prog.first
                THEN <<Member("m", prog.member, 0), Member("x", "int", 24)>>
                ELSE <<Member("x", "int", 0), Member("m", prog.member, 8)>>)

\* bool MemoryMonitor::ShouldProcessType(DIType *DIT)
RECURSIVE ShouldProcessType(_, _)
ShouldProcessType(prog, t) ==
  IF t = Void THEN TRUE
  ELSE LET D == DIType(prog, t)
       IN CASE D.class = "basic" -> TRUE
            [] D.class = "derived" ->
                 IF D.Code \in {"DW_TAG_member", "DW_TAG_ptr_to_member_type"} THEN FALSE
                 ELSE ShouldProcessType(prog, D.BaseType)
            [] D.class = "composite" ->
                 \* the count of every array of these programs is a constant
                 IF D.Code = "DW_TAG_array_type" THEN TRUE ELSE Len(D.Elements) > 0

\* int MemoryMonitor::GetTypeFormat(DIType* DIT); g is the value of the
\* local Format that no branch has assigned
RECURSIVE GetTypeFormat(_, _, _)
GetTypeFormat(prog, t, g) ==
  IF t = Void THEN 14
  ELSE LET D == DIType(prog, t)
       IN IF D.class = "composite" /\ D.Code = "DW_TAG_enumeration_type" THEN 6
          ELSE CASE D.Code = "DW_ATE_float" -> IF D.Name = "double" THEN 1 ELSE 2
                 [] D.Code = "DW_ATE_signed" ->
                      IF D.Name = "short" THEN 3
                      ELSE IF D.Name = "long int" THEN 4
                      ELSE IF D.Name = "long long int" THEN 5
                      ELSE 6
                 [] D.Code = "DW_ATE_signed_char" -> 7
                 [] D.Code = "DW_ATE_unsigned_char" -> 8
                 [] D.Code = "DW_ATE_unsigned" ->
                      IF D.Name = "unsigned short" THEN 9
                      ELSE IF D.Name = "long unsigned int" THEN 10
                      ELSE IF D.Name = "long long unsigned int" THEN 11
                      ELSE 12
                 [] D.Code = "DW_TAG_pointer_type" -> 13
                 [] D.Code = "DW_TAG_array_type" -> 15
                 [] D.Code = "DW_TAG_union_type" -> 16
                 [] D.Code = "DW_TAG_structure_type" -> 17
                 [] D.Code \in {"DW_TAG_const_type", "DW_TAG_typedef"} ->
                      GetTypeFormat(prog, D.BaseType, g)
                 [] OTHER -> g

\* the first loop of CreateTypeTable: TypeIndexes, the type of index i at
\* place i + 1
TypeIndexesOf(prog) == SelectSeq(prog.types, LAMBDA t : ShouldProcessType(prog, t))

\* the loops "for(auto &T : this->TypeIndexes) if(std::get<2>(T) == ...)":
\* the index of type t, or other when the loop finds none
IndexOr(TypeIndexes, t, other) ==
  IF \E i \in 1..Len(TypeIndexes) : TypeIndexes[i] = t
    THEN (CHOOSE i \in 1..Len(TypeIndexes) : TypeIndexes[i] = t) - 1
    ELSE other

\* the record WriteTypeDescriptor writes for a member of a struct
WriteField(prog, TypeIndexes, Field, g) ==
  LET FieldFormat == GetTypeFormat(prog, Field.BaseType, g)
      B == DIType(prog, Field.BaseType)
  IN IF ~ShouldProcessType(prog, Field.BaseType)
       THEN [Name |-> Field.Name, Format |-> 18, Offset |-> Field.Offset, BaseTypeIndex |-> 18]
     ELSE [Name |-> Field.Name, Format |-> FieldFormat, Offset |-> Field.Offset,
           BaseTypeIndex |->
             IF B.class = "derived" THEN IndexOr(TypeIndexes, B.BaseType, FieldFormat)
             ELSE IF /\ B.class = "composite"
                     /\ B.Code = "DW_TAG_array_type"
                     /\ DIType(prog, B.BaseType).class = "basic"
               THEN IndexOr(TypeIndexes, Field.BaseType, FieldFormat)
             ELSE FieldFormat]

\* MemoryMonitor::CreateTypeDescriptor and WriteTypeDescriptor: the
\* descriptor of type t
CreateTypeDescriptor(prog, TypeIndexes, t, g) ==
  LET D == DIType(prog, t)
      Format == GetTypeFormat(prog, t, g)
      One(Offset, BaseTypeIndex) ==
        [Name |-> t, QuantFields |-> 1,
         Fields |-> <<[Name |-> "", Format |-> Format, Offset |-> Offset,
                       BaseTypeIndex |-> BaseTypeIndex]>>]
  IN CASE D.class = "basic" -> One(0, Format)
       [] D.class = "derived" -> One(0, IndexOr(TypeIndexes, D.BaseType, Format))
       [] D.Code = "DW_TAG_array_type" -> One(D.Count, Format)
       [] D.Code = "DW_TAG_union_type" -> One(D.Size, Format)
       [] D.Code = "DW_TAG_structure_type" ->
            [Name |-> t, QuantFields |-> Len(D.Elements),
             Fields |-> [i \in 1..Len(D.Elements) |->
                           WriteField(prog, TypeIndexes, D.Elements[i], g)]]

\* the Type Table of a program: the descriptor of index i at place i + 1
ReifiedTable(prog, g) ==
  LET TypeIndexes == TypeIndexesOf(prog)
  IN [i \in 1..Len(TypeIndexes) |-> CreateTypeDescriptor(prog, TypeIndexes, TypeIndexes[i], g)]

\* the byte of the inspected object at an address
ByteAt(a) == (37 * a + 11) % 256

\* the n bytes from address a on
BytesFrom(a, n) == [i \in 1..n |-> ByteAt(a + i - 1)]

\* the n elements of a format from address a on
ElementsFrom(a, n, Format) ==
  [i \in 1..n |-> BytesFrom(a + (i - 1) * Width(Format), Width(Format))]

\* an inspection of the Composite Inspector: the injected call, the lines
\* written to the output file, the descriptors case 17 went into and where, the
\* diagnostics printed, and "fault" after a read it cannot make
NewRendering == [op |-> "none", lines |-> <<>>, nested |-> <<>>, printed |-> 0, status |-> "ok"]

\* void WhiroInspectUnion(OutputFile, Union, Size, Name, FuncName, CallCounter)
WhiroInspectUnion(st, Union, Size) ==
  [st EXCEPT !.lines = Append(@, [k |-> "union", a |-> Union, v |-> BytesFrom(Union, Size)])]

\* TypeTable[i] for an index outside the table: w says what the memory
\* behind the table makes of the read
RECURSIVE InspectFieldsFrom(_, _, _, _, _, _)
InspectFieldsFrom(tt, st, Data, DataType, i, w) ==
  IF st.status # "ok" THEN st
  ELSE IF DataType \notin 0..(Len(tt) - 1)
    THEN IF w = "fault" THEN [st EXCEPT !.status = "fault"] ELSE st
  ELSE IF i > tt[DataType + 1].QuantFields THEN st
  ELSE LET F == tt[DataType + 1].Fields[i]
           s1 ==
             CASE F.Format \in 1..12 ->
                    [st EXCEPT !.lines = Append(@, [k |-> "scalar", a |-> Data + F.Offset,
                                                    v |-> F.Format])]
               [] F.Format = 13 ->
                    [st EXCEPT !.lines = Append(@, [k |-> "pointer to", a |-> Data,
                                                    v |-> F.BaseTypeIndex])]
               [] F.Format = 14 ->
                    [st EXCEPT !.lines = Append(@, [k |-> "void", a |-> Data, v |-> 0])]
               [] F.Format = 15 ->
                    IF F.BaseTypeIndex \notin 0..(Len(tt) - 1)
                      THEN IF w = "fault" THEN [st EXCEPT !.status = "fault"]
                           ELSE [st EXCEPT !.lines = Append(@, [k |-> "hash", a |-> Data + F.Offset,
                                                                v |-> 0])]
                      ELSE LET E == tt[F.BaseTypeIndex + 1].Fields[1]
                               h == WhiroComputeHashcode(
                                      ElementsFrom(Data + F.Offset, E.Offset, E.Format),
                                      E.Offset, E.Offset, E.Format)
                           IN [st EXCEPT !.lines = Append(@, [k |-> "hash", a |-> Data + F.Offset,
                                                              v |-> h.v]),
                                         !.printed = @ + h.printed]
               [] F.Format = 16 -> WhiroInspectUnion(st, Data, F.Offset)
               [] F.Format = 17 ->
                    InspectFieldsFrom(tt,
                      [st EXCEPT !.nested = Append(@, [a |-> Data + F.Offset,
                                                       ty |-> F.BaseTypeIndex])],
                      Data + F.Offset, F.BaseTypeIndex, 1, w)
               [] F.Format = 18 ->
                    [st EXCEPT !.lines = Append(@, [k |-> "non-inspectable value",
                                                    a |-> Data, v |-> 0])]
               [] OTHER -> [st EXCEPT !.printed = @ + 1]
       IN InspectFieldsFrom(tt, s1, Data, DataType, i + 1, w)

NoRendering == NewRendering

\* the values the unassigned local Format of GetTypeFormat can hold
UnassignedFormats == {0, 18, 1000}

\* what a read of TypeTable behind its last descriptor can lead to
WildReads == {"fault", "nothing"}

\* the place of member m in struct Out
MemberOffset(prog) == IF prog.first THEN 0 ELSE 8

\* the byte counts and the element counts of the allocation calls
AllocBytes == {0, 8, 16, 24, 64}

AllocCounts == {1, 2, 3}

NoHeapOp == [fn |-> "none", ops |-> <<>>, ty |-> 0, constant |-> FALSE, call |-> "none",
             QuantAllocated |-> 0]

(***************************************************************************)
(* GetValidDef at the inspection points of a function: the one before the  *)
(* return and the one before a call to exit.  The trace holds the debug    *)
(* intrinsics of x that instructions(F) has visited, in the order of the   *)
(* blocks in the function (the entry block first, the others in any        *)
(* order); a block that calls exit ends there.                             *)
(***************************************************************************)
\* the blocks that can end in a call to exit
ExitBlocks == {2, 3}

\* the longest trace of the functions explored
MaxTrace == 3

\* the traces of an SSA variable: one debug intrinsic a block at most, a
\* constant or the result of an instruction of that block
SSATraces ==
  {t \in UNION {[1..n -> {DVIOf(b, k) : b \in Blocks, k \in {"const", "inst"}}] : n \in 1..MaxTrace} :
     /\ \A i, j \in 1..Len(t) : i # j => t[i].block # t[j].block
     /\ \A i \in 2..Len(t) : t[i].block # EntryBlock}

\* the trace of a variable that lives in an alloca
ResidentTrace == <<DVIOf(EntryBlock, "declare")>>

NoSelection == [at |-> "none", Trace |-> <<>>, InsBlock |-> -1, ValidDef |-> NoValidDef]

\* the parts of the state a specification does not use, at rest
IdleHeap ==
  /\ HeapTable = NoEntry
  /\ tail = NoEntry
  /\ entries = [k \in Keys |-> NoStruct]
  /\ live = {}
  /\ released = {}
  /\ mode = WhiroOpenTypeTable(FALSE, FALSE, FALSE)
  /\ status = "running"
  /\ last = Call("WhiroOpenTypeTable", NULL, 0, 0, NoInspection)

IdleLive ==
  /\ func = NoFunc
  /\ phase = "done"
  /\ pc = 1
  /\ CurrentStackMap = <<>>
  /\ ValidDef = NoValidDef
  /\ exec = NoExec
  /\ rendered = Unknown

IdleRun ==
  /\ opts = NoOptions
  /\ stack = <<>>
  /\ counter = 0
  /\ entered = 0
  /\ file = "unopened"
  /\ point = NoPoint
  /\ halt = "no"

IdleTable ==
  /\ table = <<>>
  /\ ttfile = NoFile
  /\ loaded = <<>>
  /\ ttstatus = "start"

IdleHash ==
  /\ harr = <<>>
  /\ hfmt = 0
  /\ hlast = NoHashCall

IdleReify ==
  /\ program = NoProgram
  /\ rtable = <<>>
  /\ rres = NoRendering
  /\ rphase = "pass"

IdleCount == heapop = NoHeapOp

IdleSelect == sel = NoSelection

Init ==
  /\ HeapTable = NoEntry
  /\ tail = NoEntry
  /\ entries = [k \in Keys |-> NoStruct]
  /\ live = {}
  /\ released = {}
  /\ mode \in Modes
  /\ status = "running"
  /\ last = Call("WhiroOpenTypeTable", NULL, 0, 0, NoInspection)
  /\ IdleLive
  /\ IdleRun
  /\ IdleTable
  /\ IdleHash
  /\ IdleReify
  /\ IdleCount
  /\ IdleSelect

\* r = fn(ops), fn being malloc or calloc and ty the type index of the element
\* type, with the call the pass injects after it (HandleHeapOperation,
\* InsertHeapEntry)
Alloc(fn, ops, ty, r) ==
  /\ status = "running"
  /\ r \in (HeapAddrs \ live) \cup {NULL}
  /\ live' = live \cup ({r} \ {NULL})
  /\ LET q == QuantAllocated(fn, ops, ty)
         t == WhiroInsertHeapEntry(HeapTable, tail, entries, r, q, q, ty)
     IN IF ty = NoTypeIndex
          THEN /\ UNCHANGED <<HeapTable, tail, entries, released>>
               /\ last' = Call("alloc", r, 0, ty, NoInspection)
          ELSE /\ HeapTable' = t.head
               /\ tail' = t.tail
               /\ entries' = t.tbl
               /\ released' = released \ {r}
               /\ last' = Call("WhiroInsertHeapEntry", r, q, ty, NoInspection)
  /\ UNCHANGED <<mode, status>>
  /\ UNCHANGED livevars
  /\ UNCHANGED runvars
  /\ UNCHANGED ttvars
  /\ UNCHANGED hashvars
  /\ UNCHANGED <<reifyvars, countvars, selvars>>

\* r = realloc(p, bytes), with the injected WhiroUpdateHeapEntrySize(r, bytes / sizeof)
Realloc(p, bytes, ty, r) ==
  /\ status = "running"
  /\ p \in live
  /\ r \in {NULL, p} \cup (HeapAddrs \ live)
  /\ live' = IF r = NULL THEN live ELSE (live \ {p}) \cup {r}
  /\ LET q == QuantAllocated("realloc", <<p, bytes>>, ty)
         u == WhiroUpdateHeapEntrySize(entries, r, q)
     IN /\ entries' = u.tbl
        /\ status' = IF u.fault THEN "fault" ELSE "running"
        /\ last' = Call("WhiroUpdateHeapEntrySize", r, q, ty, NoInspection)
  /\ UNCHANGED <<HeapTable, tail, mode, released>>
  /\ UNCHANGED livevars
  /\ UNCHANGED runvars
  /\ UNCHANGED ttvars
  /\ UNCHANGED hashvars
  /\ UNCHANGED <<reifyvars, countvars, selvars>>

\* free(p), with the injected WhiroDeleteHeapEntry(p)
Free(p) ==
  /\ status = "running"
  /\ p \in live \cup {NULL}
  /\ live' = live \ {p}
  /\ released' = released \cup ({p} \ {NULL})
  /\ entries' = WhiroDeleteHeapEntry(entries, p)
  /\ last' = Call("WhiroDeleteHeapEntry", p, 0, 0, NoInspection)
  /\ UNCHANGED <<HeapTable, tail, mode, status>>
  /\ UNCHANGED livevars
  /\ UNCHANGED runvars
  /\ UNCHANGED ttvars
  /\ UNCHANGED hashvars
  /\ UNCHANGED <<reifyvars, countvars, selvars>>

\* what a finished inspection leaves: the Visited fields, the process status
Finish(op, ptr, st) ==
  /\ entries' = [k \in Keys |-> [entries[k] EXCEPT !.Visited = IF k \in st.vis THEN 1 ELSE 0]]
  /\ status' = IF st.status = "ok" THEN "running" ELSE st.status
  /\ last' = Call(op, ptr, 0, 0,
                  [lines |-> st.lines, visits |-> st.visits, deref |-> st.deref])
  /\ UNCHANGED <<HeapTable, tail, live, released, mode>>
  /\ UNCHANGED livevars
  /\ UNCHANGED runvars
  /\ UNCHANGED ttvars
  /\ UNCHANGED hashvars
  /\ UNCHANGED <<reifyvars, countvars, selvars>>

\* a top-level WhiroInspectPointer call injected at an inspection point
InspectPointer(Ptr, TypeIndex, hm) ==
  /\ status = "running"
  /\ Finish("WhiroInspectPointer", Ptr,
            WhiroInspectPointer(Memory(hm, NULL), {}, NewInspection, Ptr, TypeIndex))

\* a top-level WhiroInspectStruct call on a struct Node of the stack
InspectStruct(w, hm) ==
  /\ status = "running"
  /\ Finish("WhiroInspectStruct", StackAddr,
            WhiroInspectStruct(Memory(hm, w), NewInspection, StackAddr, 1))

\* the WhiroInspectEntireHeap call injected in full-heap mode
InspectEntireHeap(hm) ==
  /\ status = "running"
  /\ Finish("WhiroInspectEntireHeap", NULL,
            WhiroInspectEntireHeap(Memory(hm, NULL), NewInspection))

\* the operands of the allocation calls of the program: n elements of type ty
MallocOps(n, ty) == <<n * TypeAllocSize(ty)>>
CallocOps(n, ty) == <<n * TypeAllocSize(ty), 1>>

Next ==
  \/ \E n \in AllocSizes, ty \in AllocTypes, r \in HeapAddrs :
        Alloc("malloc", MallocOps(n, ty), ty, r)
  \/ \E n \in AllocSizes, ty \in AllocTypes, r \in HeapAddrs :
        Alloc("calloc", CallocOps(n, ty), ty, r)
  \/ \E p \in HeapAddrs, n \in AllocSizes, ty \in AllocTypes \ {NoTypeIndex}, r \in HeapAddrs :
        Realloc(p, n * TypeAllocSize(ty), ty, r)
  \/ \E p \in HeapAddrs : Free(p)
  \/ \E Ptr \in Ptrs, TypeIndex \in 1..2, hm \in HeapMems : InspectPointer(Ptr, TypeIndex, hm)
  \/ \E w \in Words, hm \in HeapMems : InspectStruct(w, hm)
  \/ \E hm \in HeapMems : InspectEntireHeap(hm)

Spec == Init /\ [][Next]_vars

(***************************************************************************)
(* The program allocating cells and arrays of int, of struct Node and of   *)
(* struct Node*, and dumping its heap.                                     *)
(***************************************************************************)
\* the type indexes of the element types of these allocations
ElementTypes == {0, 1, 2}

NextArray ==
  \/ \E n \in AllocSizes, ty \in ElementTypes, r \in HeapAddrs :
        Alloc("malloc", MallocOps(n, ty), ty, r)
  \/ \E p \in HeapAddrs : Free(p)
  \/ \E hm \in HeapMems : InspectEntireHeap(hm)

SpecArray == Init /\ [][NextArray]_vars

(***************************************************************************)
(* The program when an allocation can fail: malloc, calloc and realloc may *)
(* return NULL, and the injected calls receive it.                         *)
(***************************************************************************)

\* the results of the allocation calls of this program
NullAddrs == {NULL, 768}

NextNull ==
  \/ \E n \in AllocSizes, r \in NullAddrs : Alloc("malloc", MallocOps(n, 2), 2, r)
  \/ \E n \in AllocSizes, r \in NullAddrs : Realloc(768, n * TypeAllocSize(2), 2, r)
  \/ \E p \in NullAddrs : Free(p)
  \/ \E Ptr \in NullAddrs, hm \in HeapMems : InspectPointer(Ptr, 1, hm)
  \/ \E hm \in HeapMems : InspectEntireHeap(hm)

SpecNull == Init /\ [][NextNull]_vars

(***************************************************************************)
(* The pass instrumenting a function, and the function then running.       *)
(***************************************************************************)
InitLive ==
  /\ IdleHeap
  /\ func \in Funcs
  /\ phase = "scan"
  /\ pc = 1
  /\ CurrentStackMap = <<>>
  /\ ValidDef = NoValidDef
  /\ exec = NoExec
  /\ rendered = Unknown
  /\ IdleRun
  /\ IdleTable
  /\ IdleHash
  /\ IdleReify
  /\ IdleCount
  /\ IdleSelect

\* the loop of InstrumentFunction over the instructions, at a debug intrinsic
InstrumentFunction ==
  /\ phase = "scan"
  /\ pc <= Len(Instructions(func))
  /\ CurrentStackMap' = UpdateStackMap(CurrentStackMap, Instructions(func)[pc])
  /\ pc' = pc + 1
  /\ UNCHANGED <<func, phase, ValidDef, exec, rendered>>
  /\ UNCHANGED heapvars
  /\ UNCHANGED runvars
  /\ UNCHANGED ttvars
  /\ UNCHANGED hashvars
  /\ UNCHANGED <<reifyvars, countvars, selvars>>

\* CreateInspectionPoint before the return: a variable with a trace is
\* reported from GetValidDef; a variable without one is not in the stack map
\* and is not reported.
CreateInspectionPoint ==
  /\ phase = "scan"
  /\ pc > Len(Instructions(func))
  /\ IF CurrentStackMap = <<>>
       THEN /\ phase' = "done"
            /\ UNCHANGED ValidDef
       ELSE /\ phase' = "run"
            /\ ValidDef' = GetValidDef(CurrentStackMap, RetBlock)
  /\ UNCHANGED <<func, pc, CurrentStackMap, exec, rendered>>
  /\ UNCHANGED heapvars
  /\ UNCHANGED runvars
  /\ UNCHANGED ttvars
  /\ UNCHANGED hashvars
  /\ UNCHANGED <<reifyvars, countvars, selvars>>

\* the instrumented function runs block b: the assignment of the block, the
\* store to the alloca of a stack-resident x, the store the pass inserted
\* after the debug intrinsic of a shadowed x
ExecuteBlock(b) ==
  /\ phase = "run"
  /\ IF exec.blk = -1 THEN b = EntryBlock ELSE b \in Succ[exec.blk]
  /\ LET k == func.assign[b]
         v == Val(k, b)
     IN exec' = [blk |-> b,
                 prev |-> exec.blk,
                 x |-> IF k = "none" THEN exec.x ELSE v,
                 mem |-> IF func.resident /\ k # "none" THEN v ELSE exec.mem,
                 slot |-> IF DVIOf(b, k) \in ValidDef.stores THEN v ELSE exec.slot]
  /\ UNCHANGED <<func, phase, pc, CurrentStackMap, ValidDef, rendered>>
  /\ UNCHANGED heapvars
  /\ UNCHANGED runvars
  /\ UNCHANGED ttvars
  /\ UNCHANGED hashvars
  /\ UNCHANGED <<reifyvars, countvars, selvars>>

\* the value of what GetValidDef selected, at the inspection point
ValueOf(V, e) ==
  CASE V.via = "alloca" -> e.mem
    [] V.via = "def" -> Val(V.def.kind, V.def.block)
    [] V.via = "phi" -> Val(V.incoming[e.prev].kind, V.incoming[e.prev].block)
    [] V.via = "shadow" -> e.slot
    [] OTHER -> Unknown

\* the injected inspection of x runs, right before the return
InspectVariable ==
  /\ phase = "run"
  /\ exec.blk = RetBlock
  /\ rendered' = ValueOf(ValidDef, exec)
  /\ phase' = "done"
  /\ UNCHANGED <<func, pc, CurrentStackMap, ValidDef, exec>>
  /\ UNCHANGED heapvars
  /\ UNCHANGED runvars
  /\ UNCHANGED ttvars
  /\ UNCHANGED hashvars
  /\ UNCHANGED <<reifyvars, countvars, selvars>>

NextLive ==
  \/ InstrumentFunction
  \/ CreateInspectionPoint
  \/ \E b \in Blocks : ExecuteBlock(b)
  \/ InspectVariable

SpecLive == InitLive /\ [][NextLive]_vars

(***************************************************************************)
(* The instrumented program calling, returning and halting.                *)
(***************************************************************************)
InitRun ==
  /\ IdleHeap
  /\ IdleLive
  /\ opts \in Options
  /\ stack = <<>>
  /\ counter = 0
  /\ entered = 0
  /\ file = "unopened"
  /\ point = NoPoint
  /\ halt = "no"
  /\ IdleTable
  /\ IdleHash
  /\ IdleReify
  /\ IdleCount
  /\ IdleSelect

\* main starts: the fopen OpenOutputFile injected at its entry
EnterMain ==
  /\ halt = "no"
  /\ stack = <<>>
  /\ file = "unopened"
  /\ stack' = <<Activation("main", 1, 1)>>
  /\ file' = "open"
  /\ UNCHANGED <<opts, counter, entered, point, halt>>
  /\ UNCHANGED heapvars
  /\ UNCHANGED livevars
  /\ UNCHANGED ttvars
  /\ UNCHANGED hashvars
  /\ UNCHANGED <<reifyvars, countvars, selvars>>

\* the running function calls f: the increment of f's counter at the entry of
\* f, when f is instrumented
CallF ==
  /\ halt = "no"
  /\ stack # <<>>
  /\ Len(stack) < MaxDepth
  /\ entered < MaxCalls
  /\ entered' = entered + 1
  /\ IF Instrumented(opts, "f")
       THEN /\ counter' = CreateFunctionCounter(counter)
            /\ stack' = Append(stack, Activation("f", CreateFunctionCounter(counter), entered + 1))
       ELSE /\ UNCHANGED counter
            /\ stack' = Append(stack, Activation("f", 0, entered + 1))
  /\ UNCHANGED <<opts, file, point, halt>>
  /\ UNCHANGED heapvars
  /\ UNCHANGED livevars
  /\ UNCHANGED ttvars
  /\ UNCHANGED hashvars
  /\ UNCHANGED <<reifyvars, countvars, selvars>>

\* the running function calls exit: in an instrumented function the
\* inspection point and the fclose injected before the call
Exit ==
  /\ halt = "no"
  /\ stack # <<>>
  /\ LET act == stack[Len(stack)]
     IN IF Instrumented(opts, act.fn)
          THEN /\ point' = [at |-> "exit", fn |-> act.fn, nth |-> act.nth,
                            lines |-> InspectionPointLines(opts, act.fn, CallCounter(act, counter)),
                            dumped |-> FALSE]
               /\ file' = "closed"
          ELSE UNCHANGED <<point, file>>
  /\ halt' = "exit"
  /\ UNCHANGED <<opts, stack, counter, entered>>
  /\ UNCHANGED heapvars
  /\ UNCHANGED livevars
  /\ UNCHANGED ttvars
  /\ UNCHANGED hashvars
  /\ UNCHANGED <<reifyvars, countvars, selvars>>

\* The running function returns.  In an instrumented function the code
\* injected before the return runs: the inspection point, in main the fclose,
\* and with -fp the call of WhiroInspectEntireHeap; in main that call writes
\* to the closed file, which loses the lines or crashes the process.
Return(lost) ==
  /\ halt = "no"
  /\ stack # <<>>
  /\ LET act == stack[Len(stack)]
         call == CallCounter(act, counter)
         closed == act.fn = "main"
         dump == IF opts.InsFullHeap /\ ~closed THEN HeapDumpLines(act.fn, call) ELSE <<>>
     IN /\ IF Instrumented(opts, act.fn)
             THEN /\ point' = [at |-> "return", fn |-> act.fn, nth |-> act.nth,
                               lines |-> InspectionPointLines(opts, act.fn, call) \o dump,
                               dumped |-> opts.InsFullHeap]
                  /\ file' = IF closed THEN "closed" ELSE file
                  /\ halt' = IF opts.InsFullHeap /\ closed /\ ~lost THEN "crash"
                             ELSE IF act.fn = "main" THEN "return" ELSE "no"
             ELSE /\ UNCHANGED <<point, file>>
                  /\ halt' = IF act.fn = "main" THEN "return" ELSE "no"
        /\ stack' = SubSeq(stack, 1, Len(stack) - 1)
  /\ UNCHANGED <<opts, counter, entered>>
  /\ UNCHANGED heapvars
  /\ UNCHANGED livevars
  /\ UNCHANGED ttvars
  /\ UNCHANGED hashvars
  /\ UNCHANGED <<reifyvars, countvars, selvars>>

NextRun ==
  \/ EnterMain
  \/ CallF
  \/ Exit
  \/ \E lost \in BOOLEAN : Return(lost)

SpecRun == InitRun /\ [][NextRun]_vars

(***************************************************************************)
(* The Type Table written by the pass and opened by the program.           *)
(***************************************************************************)
InitTable ==
  /\ IdleHeap
  /\ IdleLive
  /\ IdleRun
  /\ IdleHash
  /\ IdleReify
  /\ IdleCount
  /\ IdleSelect
  /\ table \in Tables
  /\ ttfile = NoFile
  /\ loaded = <<>>
  /\ ttstatus = "start"

\* MemoryMonitor::CreateTypeTable: the descriptors are written to the file
CreateTypeTable(g) ==
  /\ ttstatus = "start"
  /\ ttfile' = [exists |-> TRUE, bytes |-> WriteTable(table, 1, g), whole |-> TRUE]
  /\ ttstatus' = "written"
  /\ UNCHANGED <<table, loaded>>
  /\ UNCHANGED <<heapvars, livevars, runvars, hashvars, reifyvars, countvars, selvars>>

\* the file is removed before the instrumented program runs
RemoveFile ==
  /\ ttstatus = "written"
  /\ ttfile.whole
  /\ ttfile' = NoFile
  /\ UNCHANGED <<table, loaded, ttstatus>>
  /\ UNCHANGED <<heapvars, livevars, runvars, hashvars, reifyvars, countvars, selvars>>

\* the lengths a damaged file is cut to: empty, after the first name, all
\* but the last byte
CutLengths(bytes) == {0, MAX_NAME_LENGTH + 1, Len(bytes) - 1}

\* the file is cut to its first n bytes before the instrumented program runs
CutFile ==
  /\ ttstatus = "written"
  /\ ttfile.whole
  /\ \E n \in CutLengths(ttfile.bytes) :
       /\ n < Len(ttfile.bytes)
       /\ ttfile' = [exists |-> TRUE, bytes |-> SubSeq(ttfile.bytes, 1, n), whole |-> FALSE]
  /\ UNCHANGED <<table, loaded, ttstatus>>
  /\ UNCHANGED <<heapvars, livevars, runvars, hashvars, reifyvars, countvars, selvars>>

\* WhiroOpenTypeTable(ProgramName, TableSize, ...) at the entry of main, the
\* pass passing the number of descriptors it wrote: exit(1) when fopen
\* fails, else the loop of freads, whose results are not tested
LoadTypeTable(u) ==
  /\ ttstatus = "written"
  /\ IF ~ttfile.exists
       THEN /\ ttstatus' = "exit"
            /\ UNCHANGED loaded
       ELSE /\ ttstatus' = "returned"
            /\ loaded' = ReadTable(ttfile.bytes, 0, 0, Len(table), u)
  /\ UNCHANGED <<table, ttfile>>
  /\ UNCHANGED <<heapvars, livevars, runvars, hashvars, reifyvars, countvars, selvars>>

\* the contents of the memory behind a string the pass writes from, and of
\* the memory malloc hands to the loader
Garbage == {0, 2}

Fill == {0, 255}

NextTable ==
  \/ \E g \in Garbage : CreateTypeTable(g)
  \/ RemoveFile
  \/ CutFile
  \/ \E u \in Fill : LoadTypeTable(u)

SpecTable == InitTable /\ [][NextTable]_vars

(***************************************************************************)
(* The program hashing its scalar arrays.                                  *)
(***************************************************************************)
InitHash ==
  /\ IdleHeap
  /\ IdleLive
  /\ IdleRun
  /\ IdleTable
  /\ IdleReify
  /\ IdleCount
  /\ IdleSelect
  /\ hfmt \in Formats
  /\ harr \in [1..MaxElements -> Elements(hfmt)]
  /\ hlast = NoHashCall

\* WhiroInspectData, case 15, and WhiroInspectHeapArray for an entry as
\* WhiroInsertHeapEntry made it: a call with the element count and the step
\* the pass passed
ComputeHashcode(TotalElements, Step) ==
  /\ hlast' = HashCall("array", TotalElements, Step, hfmt,
                       WhiroComputeHashcode(harr, TotalElements, Step, hfmt), NoResult)
  /\ UNCHANGED <<harr, hfmt>>
  /\ UNCHANGED <<heapvars, livevars, runvars, ttvars, reifyvars, countvars, selvars>>

\* WhiroInspectHeapData and WhiroInspectHeapArray for an entry after
\* WhiroUpdateHeapEntrySize(Block, NewSize): Size = ArrayStep = NewSize, and
\* the array is hashed when Size > 1
InspectReallocated(NewSize) ==
  /\ NewSize > 1
  /\ WhiroIsScalarType(hfmt)
  /\ hlast' = HashCall("realloc", NewSize, NewSize, hfmt,
                       WhiroComputeHashcode(harr, NewSize, NewSize, hfmt), NoResult)
  /\ UNCHANGED <<harr, hfmt>>
  /\ UNCHANGED <<heapvars, livevars, runvars, ttvars, reifyvars, countvars, selvars>>

\* the same call once more, the array untouched
ComputeAgain ==
  /\ hlast.via # "none"
  /\ hlast.again.kind = "none"
  /\ hlast' = [hlast EXCEPT !.again =
                 WhiroComputeHashcode(harr, hlast.TotalElements, hlast.Step, hlast.Format)]
  /\ UNCHANGED <<harr, hfmt>>
  /\ UNCHANGED <<heapvars, livevars, runvars, ttvars, reifyvars, countvars, selvars>>

NextHash ==
  \/ \E n \in 0..MaxElements : \E s \in 0..n : ComputeHashcode(n, s)
  \/ \E n \in 0..MaxElements : InspectReallocated(n)
  \/ ComputeAgain

SpecHash == InitHash /\ [][NextHash]_vars

(***************************************************************************)
(* The pass reifying the types of a program, and the program inspecting a  *)
(* variable of struct Out and a variable of union U that lie at StackAddr. *)
(***************************************************************************)
InitReify ==
  /\ IdleHeap
  /\ IdleLive
  /\ IdleRun
  /\ IdleTable
  /\ IdleHash
  /\ IdleCount
  /\ IdleSelect
  /\ program \in Programs
  /\ rtable = <<>>
  /\ rres = NoRendering
  /\ rphase = "pass"

\* MemoryMonitor::CreateTypeTable, and WhiroOpenTypeTable loading its file
ReifyTypes(g) ==
  /\ rphase = "pass"
  /\ rtable' = ReifiedTable(program, g)
  /\ rphase' = "run"
  /\ UNCHANGED <<program, rres>>
  /\ UNCHANGED <<heapvars, livevars, runvars, ttvars, hashvars, countvars, selvars>>

\* the call MemoryMonitor::InspectStruct injects for the variable of struct
\* Out: WhiroInspectStruct(OutputFile, Struct, TypeIndex, ...)
InspectOut(w) ==
  /\ rphase = "run"
  /\ rres' = [InspectFieldsFrom(rtable, NewRendering, StackAddr,
                                IndexOr(TypeIndexesOf(program), "struct Out", NoTypeIndex), 1, w)
               EXCEPT !.op = "WhiroInspectStruct"]
  /\ UNCHANGED <<program, rtable, rphase>>
  /\ UNCHANGED <<heapvars, livevars, runvars, ttvars, hashvars, countvars, selvars>>

\* the call MemoryMonitor::InspectUnion injects for the variable of union U:
\* WhiroInspectUnion(OutputFile, Union, size of the union, ...)
InspectUnionVariable ==
  /\ rphase = "run"
  /\ rres' = [WhiroInspectUnion(NewRendering, StackAddr, DIType(program, "union U").Size)
               EXCEPT !.op = "WhiroInspectUnion"]
  /\ UNCHANGED <<program, rtable, rphase>>
  /\ UNCHANGED <<heapvars, livevars, runvars, ttvars, hashvars, countvars, selvars>>

NextReify ==
  \/ \E g \in UnassignedFormats : ReifyTypes(g)
  \/ \E w \in WildReads : InspectOut(w)
  \/ InspectUnionVariable

SpecReify == InitReify /\ [][NextReify]_vars

(***************************************************************************)
(* The pass handling the allocation calls of a program.                    *)
(***************************************************************************)
InitCount ==
  /\ IdleHeap
  /\ IdleLive
  /\ IdleRun
  /\ IdleTable
  /\ IdleHash
  /\ IdleReify
  /\ IdleSelect
  /\ heapop = NoHeapOp

\* MemoryMonitor::HandleHeapOperation on HeapOp = fn(ops), allocating
\* elements of type ty: the element count it hands to InsertHeapEntry or
\* UpdateHeapEntrySize, folded by the pass when the bytes are a constant and
\* computed by an injected udiv when they are not
HandleHeapOperation(fn, ops, ty, constant) ==
  /\ heapop' = [fn |-> fn, ops |-> ops, ty |-> ty, constant |-> constant,
                call |-> IF fn = "realloc" THEN "WhiroUpdateHeapEntrySize"
                         ELSE "WhiroInsertHeapEntry",
                QuantAllocated |-> QuantAllocated(fn, ops, ty)]
  /\ UNCHANGED <<heapvars, livevars, runvars, ttvars, hashvars, reifyvars, selvars>>

NextCount ==
  \/ \E b \in AllocBytes, ty \in 1..2, c \in BOOLEAN : HandleHeapOperation("malloc", <<b>>, ty, c)
  \/ \E n \in AllocCounts, s \in AllocBytes, ty \in 1..2, c \in BOOLEAN :
        HandleHeapOperation("calloc", <<n, s>>, ty, c)
  \/ \E p \in HeapAddrs, b \in AllocBytes, ty \in 1..2, c \in BOOLEAN :
        HandleHeapOperation("realloc", <<p, b>>, ty, c)

SpecCount == InitCount /\ [][NextCount]_vars

(***************************************************************************)
(* The pass selecting the definition of x at an inspection point.          *)
(***************************************************************************)
InitSelect ==
  /\ IdleHeap
  /\ IdleLive
  /\ IdleRun
  /\ IdleTable
  /\ IdleHash
  /\ IdleReify
  /\ IdleCount
  /\ sel = NoSelection

\* CreateInspectionPoint before the return: the trace is that of the whole
\* function
SelectAtReturn(Trace) ==
  /\ sel' = [at |-> "return", Trace |-> Trace, InsBlock |-> RetBlock,
             ValidDef |-> GetValidDef(Trace, RetBlock)]
  /\ UNCHANGED <<heapvars, livevars, runvars, ttvars, hashvars, reifyvars, countvars>>

\* CreateInspectionPoint before a call to exit in block InsBlock: the trace
\* is that of the instructions before the call
SelectAtExit(Trace, InsBlock) ==
  /\ sel' = [at |-> "exit", Trace |-> Trace, InsBlock |-> InsBlock,
             ValidDef |-> GetValidDef(Trace, InsBlock)]
  /\ UNCHANGED <<heapvars, livevars, runvars, ttvars, hashvars, reifyvars, countvars>>

NextSelect ==
  \/ \E Trace \in SSATraces \cup {ResidentTrace} : SelectAtReturn(Trace)
  \/ \E Trace \in SSATraces \cup {ResidentTrace}, InsBlock \in ExitBlocks :
        SelectAtExit(Trace, InsBlock)

SpecSelect == InitSelect /\ [][NextSelect]_vars

(***************************************************************************)
(* Properties of the Heap Table and of the inspections.                    *)
(***************************************************************************)
Made == {k \in Keys : entries[k].made}

AllUnvisited == \A k \in Made : entries[k].Visited = 0

Occurrences(seq, x) == Cardinality({i \in 1..Len(seq) : seq[i] = x})

\* C1: after every allocator call and its injected Heap Table update, every
\* heap address that is allocated has a Heap Table entry with Free = 0.
C1_LiveHasEntry ==
  \A a \in live : HASH_FIND(entries, a) # NoEntry /\ entries[a].Free = 0

\* C2: from the injected WhiroDeleteHeapEntry(a) until the next
\* WhiroInsertHeapEntry(a, ...) the lookup of a finds an entry with Free = 1
\* and Data released; right after that Insert the entry of a has Free = 0,
\* Visited = 0 and the Size, ArrayStep and TypeIndex of the call.
C2_FreedUntilInsert ==
  /\ \A a \in released : /\ HASH_FIND(entries, a) # NoEntry
                         /\ entries[a].Free = 1
                         /\ entries[a].Data = NoData
  /\ last.op = "WhiroInsertHeapEntry" =>
       /\ HASH_FIND(entries, last.ptr) # NoEntry
       /\ entries[last.ptr].Free = 0
       /\ entries[last.ptr].Visited = 0
       /\ entries[last.ptr].Data =
            [TypeIndex |-> last.ty, Size |-> last.q, ArrayStep |-> last.q]

\* C3: the table holds at most one entry per address and every entry occurs
\* exactly once in the iteration order of the table (the chain from the head
\* reaches it once and ends).
C3_OneEntryPerAddress ==
  /\ ~IterationOrder.cyclic
  /\ \A k \in Made : Occurrences(IterationOrder.order, k) = 1

\* C4: at the inspection point, the value rendered for an inspected variable
\* that has a value in the source program is that value, or, when the variable
\* was reconstructed through a shadow slot, the value written by the last
\* store of the pass that executed on the path.
C4_RenderedIsSourceValue ==
  (phase = "done" /\ ValidDef.via # "none" /\ exec.x # Unknown) =>
     \/ rendered = exec.x
     \/ ValidDef.via = "shadow" /\ rendered = exec.slot

\* C5: in precise mode, during one top-level WhiroInspectPointer call every
\* Heap Table entry is rendered at most once.
C5_RenderedAtMostOnce ==
  (last.op = "WhiroInspectPointer" /\ mode.Precise) =>
     \A k \in Keys : Occurrences(last.res.visits, k) <= 1

\* C6: every top-level WhiroInspectPointer and WhiroInspectEntireHeap call
\* whose traversal stays on the pointer graph over the Heap Table (every
\* address it reads through is the key of an entry) terminates.
C6_InspectionTerminates ==
  (/\ last.op \in {"WhiroInspectPointer", "WhiroInspectEntireHeap"}
   /\ last.res.deref \subseteq Made) =>
     status \notin {"hang", "diverge"}

\* C7: right after a top-level WhiroInspectPointer call returns, Visited is 0
\* on every Heap Table entry.
C7_UnvisitedAfterInspectPointer ==
  (last.op = "WhiroInspectPointer" /\ status = "running") => AllUnvisited

\* C8: whenever a top-level inspection can start (the process is running
\* between two injected calls), Visited is 0 on every entry.
C8_UnvisitedBetweenInspections ==
  status = "running" => AllUnvisited

\* C9: tracking a NULL pointer emits the line "name func call : NULL" and
\* neither dereferences the pointer nor inspects a Heap Table entry.
C9_NullNeverFollowed ==
  (last.op = "WhiroInspectPointer" /\ mode.Precise /\ last.ptr = NULL) =>
     /\ last.res.lines = <<[k |-> "NULL", a |-> NULL]>>
     /\ last.res.deref = {}
     /\ last.res.visits = <<>>

UntrackedInspected ==
  /\ last.op = "WhiroInspectPointer"
  /\ mode.Precise
  /\ last.ptr # NULL
  /\ HASH_FIND(entries, last.ptr) = NoEntry

FreedInspected ==
  /\ last.op = "WhiroInspectPointer"
  /\ mode.Precise
  /\ ~(mode.MemFilter /\ ~mode.InsHeap)
  /\ HASH_FIND(entries, last.ptr) # NoEntry
  /\ entries[last.ptr].Free = 1

\* C12: inspecting a pointer whose entry has Free = 1 emits exactly the line
\* "name func call : freed" and reads nothing through the pointer.
C12_FreedRenderedAsFreed ==
  FreedInspected =>
     /\ last.res.lines = <<[k |-> "freed", a |-> last.ptr]>>
     /\ last.res.deref = {}
\* C13: on every path on which the program halts, by the return from main or
\* by a call to exit in any function, the output file has been closed before
\* the halt.
C13_ClosedBeforeHalt ==
  halt \in {"exit", "return"} => file = "closed"

\* the variables of the lines of one kind in a snapshot, in the order written
RECURSIVE VarsOfKind(_, _)
VarsOfKind(lines, kind) ==
  IF lines = <<>> THEN <<>>
  ELSE (IF Head(lines).kind = kind THEN <<Head(lines).var>> ELSE <<>>)
       \o VarsOfKind(Tail(lines), kind)

KindRank(kind) == CASE kind = "local" -> 1 [] kind = "static" -> 2 [] OTHER -> 3

\* locals before statics before the full-heap dump
KindsInOrder(lines) ==
  \A i, j \in 1..Len(lines) : i < j => KindRank(lines[i].kind) <= KindRank(lines[j].kind)

C15_DumpAfterEveryPoint ==
  (opts.InsFullHeap /\ point.at # "none") => point.dumped

\* C16: the counter of f is incremented exactly once per entry into f and
\* never reset, every line of the n-th entry into f carries CALL = n, and
\* every line of main carries CALL = 1.
C16_CallCounterIsEntryNumber ==
  /\ Instrumented(opts, "f") => counter = entered
  /\ \A i \in 1..Len(point.lines) :
       point.lines[i].call = IF point.fn = "main" THEN 1 ELSE point.nth

\* the first entry into f wrote its snapshot after further entries into f
C16_Witness ==
  /\ point.fn = "f"
  /\ point.nth = 1
  /\ entered >= 2
  /\ point.lines # <<>>
\* C17: when the Type Table file is missing or holds fewer bytes than the
\* descriptors require, WhiroOpenTypeTable terminates the process; it never
\* returns with a partially read table.
C17_ShortFileIsFatal ==
  ttstatus = "returned" => ttfile.whole

\* C18: loading the file the pass wrote, with the descriptor count it
\* emitted, yields for every index the Name, QuantFields and per-field Name,
\* Format, Offset and BaseTypeIndex that were serialised.
C18_LoadYieldsSerialised ==
  (ttstatus = "returned" /\ ttfile.whole) => loaded = Serialised(table)
(***************************************************************************)
(* Properties of the Array Hash Calculator (SpecHash).                     *)
(***************************************************************************)
\* C19: every call of WhiroComputeHashcode with TotalElements >= 0,
\* Step >= 0 and any Format terminates and returns a value, and a second
\* call with the same array contents and arguments returns the same value.
C19_HashTotalAndPure ==
  hlast.via # "none" =>
     /\ hlast.res.kind = "value"
     /\ hlast.again.kind # "none" => hlast.again = hlast.res

\* an unsigned 32-bit number as its two 16-bit halves <<high, low>>: the
\* value of an element of a format, modulo 2^32
Halves(e, Format) ==
  CASE Format = 7 -> IF e[1] >= 128 THEN <<65535, 65280 + e[1]>> ELSE <<0, e[1]>>
    [] Format = 8 -> <<0, e[1]>>
    [] Format = 3 -> <<IF e[2] >= 128 THEN 65535 ELSE 0, e[1] + 256 * e[2]>>
    [] Format = 9 -> <<0, e[1] + 256 * e[2]>>
    [] OTHER -> <<e[3] + 256 * e[4], e[1] + 256 * e[2]>>

\* x + y modulo 2^32
HalvesSum(x, y) ==
  LET low == x[2] + y[2]
      high == x[1] + y[1] + (low \div 65536)
  IN <<high % 65536, low % 65536>>

\* 31 * x modulo 2^32
HalvesTimes31(x) ==
  LET low == 31 * x[2]
      high == 31 * x[1] + (low \div 65536)
  IN <<high % 65536, low % 65536>>

\* the int of an unsigned 32-bit number
HalvesAsInt(x) ==
  IF x[1] >= 32768 THEN ((65536 * (x[1] - 32768) + x[2]) - 2147483647) - 1
  ELSE 65536 * x[1] + x[2]

\* the fold acc := 31 * acc + element over the n elements behind offset off
RECURSIVE BlockFold(_, _, _, _, _)
BlockFold(mem, off, n, Format, acc) ==
  IF n = 0 THEN acc
  ELSE BlockFold(mem, off + 1, n - 1, Format,
                 HalvesSum(HalvesTimes31(acc), Halves(mem[off + 1], Format)))

\* the sum of the folds of the blocks at offsets off, off + S, ..., N - S
RECURSIVE BlockSum(_, _, _, _, _)
BlockSum(mem, off, N, S, Format) ==
  IF off >= N THEN <<0, 0>>
  ELSE HalvesSum(BlockFold(mem, off, S, Format, <<0, 1>>), BlockSum(mem, off + S, N, S, Format))

\* C20: for an integer format and a Step > 0 dividing TotalElements, the
\* hashcode is the sum over the blocks of Step elements at offsets 0, Step,
\* ..., TotalElements - Step of the fold acc := 31 * acc + element started
\* from 1, in 32-bit wrapping arithmetic; for a heap entry after realloc it
\* is the single fold over all the elements.
C20_HashIsSumOfBlockFolds ==
  (/\ hlast.via # "none"
   /\ hlast.Format \in IntFormats
   /\ hlast.Step > 0
   /\ hlast.TotalElements % hlast.Step = 0) =>
     /\ hlast.res.kind = "value"
     /\ hlast.res.v = HalvesAsInt(BlockSum(harr, 0, hlast.TotalElements, hlast.Step, hlast.Format))
     /\ hlast.via = "realloc" =>
          /\ hlast.Step = hlast.TotalElements
          /\ hlast.res.v = HalvesAsInt(BlockFold(harr, 0, hlast.TotalElements, hlast.Format, <<0, 1>>))

\* an int array of several blocks whose first element is INT_MAX was hashed,
\* and the fold wrapped
C20_Witness ==
  /\ hlast.via = "array"
  /\ hlast.Format = 6
  /\ hlast.Step > 0
  /\ hlast.TotalElements >= 2 * hlast.Step
  /\ hlast.TotalElements % hlast.Step = 0
  /\ harr[1] = <<255, 255, 255, 127>>
  /\ hlast.res.kind = "value"
  /\ hlast.res.v < 0
(***************************************************************************)
(* Properties of the Type Reifier and the Composite Inspector (SpecReify)  *)
(* and of the element counts (SpecCount).                                  *)
(***************************************************************************)
\* the type behind the typedefs and consts of t
RECURSIVE Unqualified(_, _)
Unqualified(prog, t) ==
  IF t # Void /\ DIType(prog, t).Code \in {"DW_TAG_const_type", "DW_TAG_typedef"}
    THEN Unqualified(prog, DIType(prog, t).BaseType)
    ELSE t

\* the encodings and tags of the fixed table of the Type Reifier
ClassifiedCodes ==
  {"DW_ATE_float", "DW_ATE_signed", "DW_ATE_signed_char", "DW_ATE_unsigned_char",
   "DW_ATE_unsigned", "DW_TAG_pointer_type", "DW_TAG_array_type", "DW_TAG_union_type",
   "DW_TAG_structure_type", "DW_TAG_enumeration_type"}

Unclassified(prog, t) ==
  Unqualified(prog, t) # Void /\ DIType(prog, Unqualified(prog, t)).Code \notin ClassifiedCodes

\* the lines of the latest inspection that are of kind k
LinesOfKind(k) == SelectSeq(rres.lines, LAMBDA l : l.k = k)

\* C21: every Format of the Type Table lies in 1..18, the Format of a type
\* whose encoding or tag is not in the fixed table is 18, and the Composite
\* Inspector renders a member of such a type as 'non-inspectable value'.
C21_UnclassifiedIsNonInspectable ==
  rphase = "run" =>
    /\ \A i \in 1..Len(rtable) : \A j \in 1..rtable[i].QuantFields :
         rtable[i].Fields[j].Format \in 1..18
    /\ \A i \in 1..Len(rtable) :
         Unclassified(program, TypeIndexesOf(program)[i]) => rtable[i].Fields[1].Format = 18
    /\ (rres.op = "WhiroInspectStruct" /\ Unclassified(program, program.member)) =>
         Len(LinesOfKind("non-inspectable value")) = 1

\* C23: a member that is an array of n scalars of format f is rendered as
\* WhiroComputeHashcode(address of the member, n, n, f), the descriptor its
\* BaseTypeIndex designates carrying f in Format and n in Offset.
C23_ArrayFieldIsHashed ==
  (rres.op = "WhiroInspectStruct" /\ program.member = "int[4]") =>
    LET a == StackAddr + MemberOffset(program)
        n == DIType(program, "int[4]").Count
        f == GetTypeFormat(program, DIType(program, "int[4]").BaseType, 0)
        E == rtable[IndexOr(TypeIndexesOf(program), "int[4]", 0) + 1].Fields[1]
    IN /\ E.Format = f
       /\ E.Offset = n
       /\ LinesOfKind("hash") =
            <<[k |-> "hash", a |-> a, v |-> WhiroComputeHashcode(ElementsFrom(a, n, f), n, n, f).v]>>

\* C24: for a member whose type is a struct S the Composite Inspector goes
\* into the descriptor of S at the address of the member.
C24_NestedStructUsesItsDescriptor ==
  (/\ rres.op = "WhiroInspectStruct"
   /\ DIType(program, Unqualified(program, program.member)).Code = "DW_TAG_structure_type") =>
    rres.nested = <<[a |-> StackAddr + MemberOffset(program),
                     ty |-> IndexOr(TypeIndexesOf(program),
                                    Unqualified(program, program.member), NoTypeIndex)]>>

\* C25: for a union, a variable or a member at any offset of a struct, the
\* bytes printed are the union's size in bytes from the union's own address
\* on.
C25_UnionBytesFromItsBase ==
  LET Size == DIType(program, "union U").Size
      Printed(a) == <<[k |-> "union", a |-> a, v |-> BytesFrom(a, Size)]>>
  IN /\ rres.op = "WhiroInspectUnion" => rres.lines = Printed(StackAddr)
     /\ (rres.op = "WhiroInspectStruct" /\ program.member = "union U") =>
          LinesOfKind("union") = Printed(StackAddr + MemberOffset(program))

\* C26: the element count handed to the Heap Table is the number of bytes
\* allocated divided by the size of the element: b / sizeof for malloc(b)
\* and realloc(p, b), (n * s) / sizeof for calloc(n, s), for constant and
\* for computed sizes.
C26_CountIsBytesOverSize ==
  heapop.fn # "none" =>
    heapop.QuantAllocated =
      (CASE heapop.fn = "malloc" -> heapop.ops[1]
         [] heapop.fn = "realloc" -> heapop.ops[2]
         [] heapop.fn = "calloc" -> heapop.ops[1] * heapop.ops[2]) \div TypeAllocSize(heapop.ty)
(***************************************************************************)
(* Properties of the selection of definitions (SpecSelect).                *)
(***************************************************************************)
\* the places of the trace whose observation is in block b
PlacesIn(Trace, b) == {i \in 1..Len(Trace) : Trace[i].block = b}

\* the places of the trace whose observation dominates block b
PlacesAbove(Trace, b) == {i \in 1..Len(Trace) : Dominates(Trace[i].block, b)}

\* The definition the priority order names: the stack slot; else the last
\* observation of the inspection block; else the observation in the most
\* immediate dominator; NoDVI when the trace has none of them.
Authoritative(Trace, InsBlock) ==
  IF \E i \in 1..Len(Trace) : Trace[i].kind = "declare"
    THEN Trace[CHOOSE i \in 1..Len(Trace) : Trace[i].kind = "declare"]
  ELSE IF PlacesIn(Trace, InsBlock) # {}
    THEN Trace[CHOOSE i \in PlacesIn(Trace, InsBlock) : \A j \in PlacesIn(Trace, InsBlock) : j <= i]
  ELSE IF PlacesAbove(Trace, InsBlock) # {}
    THEN Trace[CHOOSE i \in PlacesAbove(Trace, InsBlock) :
                 \A j \in PlacesAbove(Trace, InsBlock) :
                    j = i \/ Dominates(Trace[j].block, Trace[i].block)]
  ELSE NoDVI

\* C22: whatever the order of the trace, GetValidDef selects the stack slot
\* if the trace has one, else the last value observed in the inspection
\* block, else the value observed in the most immediate dominator.
C22_PriorityOrder ==
  (sel.at # "none" /\ Authoritative(sel.Trace, sel.InsBlock) # NoDVI) =>
     /\ sel.ValidDef.via \in {"alloca", "def"}
     /\ sel.ValidDef.def = Authoritative(sel.Trace, sel.InsBlock)

\* C29: what GetValidDef returns is usable at the inspection point: a stack
\* slot, a value defined in the inspection block or in a block that
\* dominates it, or a merge node with one incoming value for every
\* predecessor of the inspection block.
C29_ValidDefIsUsable ==
  sel.at # "none" =>
    \/ sel.ValidDef.via \in {"alloca", "shadow"}
    \/ /\ sel.ValidDef.via = "def"
       /\ sel.ValidDef.def.kind = "inst" =>
            \/ sel.ValidDef.def.block = sel.InsBlock
            \/ Dominates(sel.ValidDef.def.block, sel.InsBlock)
    \/ /\ sel.ValidDef.via = "phi"
       /\ \A b \in Blocks : sel.ValidDef.incoming[b] # NoDVI <=> b \in Pred(sel.InsBlock)
\* C28: in every mode and on every path the output file is written only
\* between the fopen at the entry of main and the fclose: a step that
\* executes the call dumping the heap leaves the file open, and no run
\* crashes writing to the closed file.
C28_WritesBeforeClose ==
  [][/\ (point' # point /\ point'.dumped) => file' = "open"
     /\ halt' # "crash"]_vars
\* C30: WhiroUpdateHeapEntrySize(a, n) sets Size and ArrayStep of the live
\* entry keyed a to n and changes nothing else; when a has no entry, or its
\* entry was freed, the call leaves the Heap Table as it was and does not
\* fault.
C30_UpdateChangesOnlySize ==
  [][last'.op = "WhiroUpdateHeapEntrySize" =>
       /\ status' = "running"
       /\ HeapTable' = HeapTable
       /\ tail' = tail
       /\ IF HASH_FIND(entries, last'.ptr) # NoEntry /\ entries[last'.ptr].Free = 0
            THEN entries' = [entries EXCEPT ![last'.ptr].Data.Size = last'.q,
                                            ![last'.ptr].Data.ArrayStep = last'.q]
            ELSE entries' = entries]_vars
\* the element type of a Heap Table entry is a scalar type: its descriptor
\* is one scalar field
ElementIsScalar(TypeIndex) ==
  /\ TypeTable[TypeIndex].QuantFields = 1
  /\ WhiroIsScalarType(TypeTable[TypeIndex].Fields[1].Format)

\* C27: the heap inspection writes an array hash for an entry only when the
\* entry is live, its Size is above 1 and its element type is a scalar type:
\* an array of structs is never hashed as an array of scalars.
C27_HashOnlyScalarArrays ==
  (last.op = "WhiroInspectEntireHeap" /\ status = "running") =>
     \A i \in 1..Len(last.res.lines) :
        last.res.lines[i].k = "hash" =>
           /\ entries[last.res.lines[i].a].Free = 0
           /\ entries[last.res.lines[i].a].Data.Size > 1
           /\ ElementIsScalar(entries[last.res.lines[i].a].Data.TypeIndex)
====
